---------------------------- MODULE Spec2Model ----------------------------
(***************************************************************************)
(* Gas Town (gtr) durable workflows as state machines.                     *)
(*                                                                         *)
(* Each workflow function of crates/gtr-temporal/src/workflows is a        *)
(* single-threaded coroutine: it runs from one await to the next without   *)
(* interruption, and signals that arrive meanwhile are buffered in the     *)
(* per-name signal channels.  One action below is one such run: from a     *)
(* resumed await (a select! branch or an activity result) up to the next   *)
(* await.  Signal delivery by the engine is a separate (environment)       *)
(* action that only appends to a channel.                                  *)
(*                                                                         *)
(* The `?` on as_json_payload / serde_json::to_string is not an exit path  *)
(* of the model: serialising structs of strings, integers and options of   *)
(* strings to JSON cannot fail.                                            *)
(***************************************************************************)
EXTENDS Integers, Sequences, FiniteSets, TLC

\* ------------------------------------------------------------------ bounds
\* Signals delivered to one polecat run, over all names.
MaxPolecatSignals == 3
\* Signals delivered to one refinery run, over all names.
MaxRefSignals == 3
\* Staleness-timer expiries of one work item run.
MaxStale == 1
\* 60 s heartbeat ticks of one polecat run.
MaxHeartbeats == 2

None == "None"

\* Result of an awaited activity as the workflow sees it (completed_ok()).
ActivityResults == {"ok", "fail"}

\* &s[..s.len().min(cut)] in the argument of tracing::info!, which the default
\* filter "info" enables: the slice panics when the cut is not a character
\* boundary.  "wide_text" is a text that is longer than the cut and has a
\* multi-byte character lying across it.
LogSlicePanics(s) == s = "wide_text"

\* ------------------------------------------------------------- variables
VARIABLES
    \* polecat_wf (workflows/polecat.rs)
    polecat_pc,          \* position of the coroutine
    polecat_status,      \* status
    exit_reason,         \* exit_reason
    agent_summary,       \* agent_summary: Option<String>
    agent_spawned,       \* agent_spawned
    agent_alive,         \* pty::is_alive(polecat_id): the agent's tmux session exists
    captured_output,     \* captured_output: Option<String>
    kill_ch,             \* pending polecat_kill signals
    done_ch,             \* pending polecat_done payloads
    stuck_ch,            \* pending polecat_stuck signals
    polecat_sent,        \* number of signals the environment has delivered
    polecat_calls,       \* activities invoked, in order
    polecat_select,      \* what was pending at the last select!, and its branch
    reports_sent,        \* polecat_report signals handed to signal_workflow
    mayor_inbox,         \* polecat_report signals the mayor workflow received
    polecat_result,      \* returned PolecatState (<<>>: not returned)
    \* refinery_wf (workflows/refinery.rs)
    ref_pc,
    queue,
    processed,
    ref_idx,             \* idx of the entry in flight (0: none)
    ref_entry,           \* entry after queue.remove(idx), before processed.push (<<>>: none)
    enqueue_ch,
    dequeue_ch,
    stop_ch,
    ref_sent,            \* number of signals delivered so far
    ref_history,         \* the entry started last: its id and its activities with outcomes
    ref_result,
    \* work_item_wf (workflows/work_item.rs)
    wi_pc,
    wi_status,
    assigned_to,
    escalation_level,
    wi_ch,               \* signal channels, by signal name
    wi_sent,
    wi_stale,            \* staleness-timer expiries so far
    wi_timer,            \* hours since the timer of the current select! was created
    wi_quiet,            \* hours the item has been assigned / in_progress since it
                         \* became so, last got a heartbeat or was last found stale
    wi_log,              \* signals delivered so far, in delivery order
    notifications,       \* send_notification inputs, in order
    wi_result,
    \* convoy_wf (workflows/convoy.rs)
    convoy_pc,
    work_items,          \* work_items: Vec<String>
    completed,           \* completed: HashSet<String>
    convoy_status,
    add_item_ch,
    item_done_ch,
    cancel_ch,
    convoy_close_ch,
    convoy_sent,
    convoy_children,     \* ids of the child work item workflows that started
    convoy_result,
    \* molecule_wf (workflows/molecule.rs)
    mol_pc,
    steps,               \* steps: Vec<MolStepState>
    mol_status,
    current_step,        \* current_step: Option<String>
    mol_ch,              \* signal channels, by signal name
    mol_sent,
    mol_result,
    \* rig_wf (workflows/rig.rs)
    rig_pc,
    rig_name,            \* state.name
    git_url,
    rig_status,
    rig_agents,          \* state.agents: Vec<RigAgentEntry>
    polecats,
    crew,
    has_witness,
    has_refinery,
    witness_session_id,
    refinery_session_id,
    from_continue,
    rig_ch,              \* signal channels, by signal name
    rig_sent,
    rig_last,            \* name of the signal handled last, over all incarnations
    rig_spawn,           \* the spawn_agent activity invoked last (<<>>: none)
    rig_args,            \* arguments of the continue-as-new (<<>>: none)
    \* process supervisor (pty.rs)
    pty_session,         \* by agent id: the tmux session gtr-<id> exists
    pty_dir,             \* by agent id: runtime_dir(id) exists
    pty_pidfile,         \* by agent id: runtime_dir(id)/pid exists
    pty_proc,            \* by agent id: processes of the pane's group are left
    pty_log,             \* the calls made so far, oldest first
    pty_ret,             \* what the call made last returned
    \* gate_wf (workflows/gate.rs)
    gate_pc,             \* position of the coroutine
    gate_type,           \* variant of GateType
    gate_status,         \* status
    gate_ch,             \* signals waiting in close_ch and approve_ch
    gate_sent,
    gate_result,         \* the GateState returned (<<>>: none)
    \* mayor_wf (workflows/mayor.rs)
    mayor_pc,            \* position of the coroutine
    mayor_agents,        \* agents: Vec<MayorAgentEntry>
    active_convoys,
    polecat_reports,     \* polecat_reports: Vec<PolecatReportSignal>
    mayor_ch,            \* signal channels, by signal name
    mayor_sent,
    mayor_result,        \* the MayorState returned (<<>>: none)
    \* witness_wf (workflows/witness.rs)
    witness_pc,          \* position of the coroutine
    checks,
    alerts_sent,
    last_alive,          \* by polecat id; None: no entry
    dead_counts,         \* by polecat id; 0 also stands for no entry
    tracked_polecats,
    witness_stop_ch,     \* agent_stop signals waiting
    witness_note,        \* the send_notification of the latest cycle (<<>>: none)
    found_dead,          \* by polecat id: latest consecutive checks that did
                         \* not find the session alive
    witness_result,
    \* boot_wf (workflows/boot.rs)
    boot_pc,             \* position of the coroutine
    boot_checks,
    boot_spawned,        \* spawned: Vec<String>
    boot_alive,          \* pty::is_alive("mayor")
    boot_stop_ch,        \* agent_stop signals waiting
    boot_probed,         \* what the probe of the latest tick found (None: no probe)
    boot_respawned,      \* spawn_agent was invoked in the latest tick
    boot_result,
    \* FormulaDef (gtr-core/src/formula.rs)
    formula_pc,          \* "build": steps are being read; "sorted": topo_sort ran
    formula_steps,       \* steps: Vec<FormulaStep>
    topo_result,         \* what topo_sort returned (<<>>: not called)
    \* formula_wf (workflows/formula.rs)
    fwf_pc,              \* position of the coroutine
    fwf_def,             \* def.steps of the formula read
    sorted_steps,        \* names of def.topo_sort()?, in order
    steps_completed,     \* completed
    fwf_runs,            \* run_plugin calls: step name and what the command did
    fwf_result,          \* FormulaResult returned, or the error
    \* RigsConfig (gtr-core/src/config.rs)
    cfg_rigs,            \* rigs: Vec<RigEntry>
    cfg_ops,             \* add and remove calls so far
    cfg_last,            \* the latest call and the list it was made on
    \* spawn_agent and kill_agent activities running at the same time for one
    \* agent id (activities/spawn_agent.rs, pty.rs)
    sup_session,         \* the activity that created the live tmux session, 0: none
    sup_dir,             \* runtime_dir(agent_id) exists
    sup_env,             \* the activity whose env.json is in the directory, 0: none
    sup_pidfile,         \* the activity whose session's PID is in the pid file, 0: none
    sup_task,            \* per worker slot: the activity it runs and where it is
    sup_started,         \* activities started so far
    \* `rgt done` run by the agent of a polecat (gtr-cli/src/commands/done.rs)
    done_cmd_pc,         \* position of the command's process
    done_in_group,       \* the process is in the process group of the pane's command
    done_signalled,      \* polecat_done was sent
    enqueue_sent,        \* refinery_enqueue signals sent, by workflow id
    \* senders of the refinery's signals (gtr-cli/src/commands/mq.rs, done.rs)
    mq_waiting           \* ids removed while waiting and not enqueued again since

polecat_vars == <<polecat_pc, polecat_status, exit_reason, agent_summary,
                  agent_spawned, agent_alive, captured_output, kill_ch, done_ch,
                  stuck_ch,
                  polecat_sent, polecat_calls, polecat_select, reports_sent,
                  mayor_inbox, polecat_result>>

refinery_vars == <<ref_pc, queue, processed, ref_idx, ref_entry, enqueue_ch,
                   dequeue_ch, stop_ch, ref_sent, ref_history, ref_result>>

wi_vars == <<wi_pc, wi_status, assigned_to, escalation_level, wi_ch, wi_sent,
             wi_stale, wi_timer, wi_quiet, wi_log, notifications, wi_result>>

convoy_vars == <<convoy_pc, work_items, completed, convoy_status, add_item_ch,
                 item_done_ch, cancel_ch, convoy_close_ch, convoy_sent,
                 convoy_children, convoy_result>>

molecule_vars == <<mol_pc, steps, mol_status, current_step, mol_ch, mol_sent,
                   mol_result>>

rig_vars == <<rig_pc, rig_name, git_url, rig_status, rig_agents, polecats, crew,
              has_witness, has_refinery, witness_session_id, refinery_session_id,
              from_continue, rig_ch, rig_sent, rig_last, rig_spawn, rig_args>>

workflow_vars == <<polecat_vars, refinery_vars, wi_vars, convoy_vars, molecule_vars,
                   rig_vars>>

pty_vars == <<pty_session, pty_dir, pty_pidfile, pty_proc, pty_log, pty_ret>>

gate_vars == <<gate_pc, gate_type, gate_status, gate_ch, gate_sent, gate_result>>

mayor_vars == <<mayor_pc, mayor_agents, active_convoys, polecat_reports, mayor_ch, mayor_sent, mayor_result>>

witness_vars == <<witness_pc, checks, alerts_sent, last_alive, dead_counts, tracked_polecats, witness_stop_ch, witness_note, found_dead, witness_result>>

boot_vars == <<boot_pc, boot_checks, boot_spawned, boot_alive, boot_stop_ch, boot_probed, boot_respawned, boot_result>>

formula_vars == <<formula_pc, formula_steps, topo_result>>

fwf_vars == <<fwf_pc, fwf_def, sorted_steps, steps_completed, fwf_runs, fwf_result>>

cfg_vars == <<cfg_rigs, cfg_ops, cfg_last>>

sup_vars == <<sup_session, sup_dir, sup_env, sup_pidfile, sup_task, sup_started>>

done_vars == <<done_cmd_pc, done_in_group, done_signalled, enqueue_sent>>

mq_vars == <<mq_waiting>>

\* The state outside the six workflows above.
service_vars == <<pty_vars, gate_vars, mayor_vars, witness_vars, boot_vars,
                  formula_vars, fwf_vars, cfg_vars, sup_vars, done_vars,
                  mq_vars>>

\* For each component, the state of the other components of service_vars.
pty_others == <<gate_vars, mayor_vars, witness_vars, boot_vars, formula_vars,
                fwf_vars, cfg_vars, sup_vars, done_vars, mq_vars>>

gate_others == <<pty_vars, mayor_vars, witness_vars, boot_vars, formula_vars,
                 fwf_vars, cfg_vars, sup_vars, done_vars, mq_vars>>

mayor_others == <<pty_vars, gate_vars, witness_vars, boot_vars, formula_vars,
                  fwf_vars, cfg_vars, sup_vars, done_vars, mq_vars>>

witness_others == <<pty_vars, gate_vars, mayor_vars, boot_vars, formula_vars,
                    fwf_vars, cfg_vars, sup_vars, done_vars, mq_vars>>

boot_others == <<pty_vars, gate_vars, mayor_vars, witness_vars, formula_vars,
                 fwf_vars, cfg_vars, sup_vars, done_vars, mq_vars>>

formula_others == <<pty_vars, gate_vars, mayor_vars, witness_vars, boot_vars,
                    fwf_vars, cfg_vars, sup_vars, done_vars, mq_vars>>

fwf_others == <<pty_vars, gate_vars, mayor_vars, witness_vars, boot_vars,
                formula_vars, cfg_vars, sup_vars, done_vars, mq_vars>>

cfg_others == <<pty_vars, gate_vars, mayor_vars, witness_vars, boot_vars,
                formula_vars, fwf_vars, sup_vars, done_vars, mq_vars>>

sup_others == <<pty_vars, gate_vars, mayor_vars, witness_vars, boot_vars,
                formula_vars, fwf_vars, cfg_vars, done_vars, mq_vars>>

done_others == <<pty_vars, gate_vars, mayor_vars, witness_vars, boot_vars,
                 formula_vars, fwf_vars, cfg_vars, sup_vars, mq_vars>>

mq_others == <<pty_vars, gate_vars, mayor_vars, witness_vars, boot_vars,
               formula_vars, fwf_vars, cfg_vars, sup_vars, done_vars>>

vars == <<workflow_vars, service_vars>>

\* =================================================================
\* Polecat workflow
\* =================================================================

\* Summaries an agent may pass with polecat_done; "bad" is a payload that
\* does not deserialize as PolecatDoneSignal (or no payload at all).
DonePayloads == {"bad", None, "agent_text", "wide_text"}

\* What capture_pane may yield: the activity fails, or completes with
\* captured = None, or with pane text.
CaptureOutcomes == {"fail", None, "pane_text", "wide_text"}

PolecatInit ==
    /\ polecat_pc = "worktree"
    /\ polecat_status = "working"
    /\ exit_reason = "unknown"
    /\ agent_summary = None
    /\ agent_spawned = FALSE
    /\ agent_alive = FALSE
    /\ captured_output = None
    /\ kill_ch = 0
    /\ done_ch = <<>>
    /\ stuck_ch = 0
    /\ polecat_sent = 0
    /\ polecat_calls = <<>>
    /\ polecat_select = [kill |-> FALSE, done |-> FALSE, stuck |-> FALSE, branch |-> None]
    /\ reports_sent = <<>>
    /\ mayor_inbox = <<>>
    /\ polecat_result = <<>>

\* agent_summary.or(captured_output)
OptionOr(a, b) == IF a # None THEN a ELSE b

summary == OptionOr(agent_summary, captured_output)

\* Where the coroutine awaits next once steps 1 and 2 are over: the loop and
\* steps 4 and 5 run only `if agent_spawned`.
AfterSpawnPcCapture(spawned) == IF spawned THEN "loop" ELSE "capture"

AfterSpawnPc(spawned) == IF spawned THEN "loop" ELSE "report"

\* Step 1: git_operation(WorktreeAdd) returns.
PolecatWorktree ==
    /\ polecat_pc = "worktree"
    /\ \E r \in ActivityResults :
        /\ polecat_calls' = Append(polecat_calls, "git_operation")
        /\ IF r = "fail"
              THEN /\ polecat_status' = "failed"
                   /\ exit_reason' = "worktree_failed"
                   /\ polecat_pc' = AfterSpawnPc(agent_spawned)
              ELSE /\ UNCHANGED <<polecat_status, exit_reason>>
                   /\ polecat_pc' = "spawn"
    /\ UNCHANGED <<agent_summary, agent_spawned, captured_output, kill_ch, done_ch,
                   stuck_ch, polecat_sent, polecat_select, reports_sent,
                   mayor_inbox, polecat_result>>
    /\ UNCHANGED agent_alive
    /\ UNCHANGED <<refinery_vars, wi_vars, convoy_vars, molecule_vars, rig_vars, service_vars>>

\* Step 2: spawn_agent returns.
PolecatSpawn ==
    /\ polecat_pc = "spawn"
    /\ \E r \in ActivityResults :
        /\ polecat_calls' = Append(polecat_calls, "spawn_agent")
        /\ IF r = "fail"
              THEN /\ polecat_status' = "spawn_failed"
                   /\ exit_reason' = "spawn_failed"
                   /\ agent_spawned' = FALSE
              ELSE /\ UNCHANGED <<polecat_status, exit_reason>>
                   /\ agent_spawned' = TRUE
        /\ polecat_pc' = AfterSpawnPc(agent_spawned')
    /\ UNCHANGED <<agent_summary, captured_output, kill_ch, done_ch, stuck_ch,
                   polecat_sent, polecat_select, reports_sent, mayor_inbox,
                   polecat_result>>
    \* A successful spawn_agent has created the session.
    /\ agent_alive' = agent_spawned'
    /\ UNCHANGED <<refinery_vars, wi_vars, convoy_vars, molecule_vars, rig_vars, service_vars>>

\* Step 3: tokio::select! { biased; kill, done, stuck, timer }.  The branches
\* are polled in this order and the first ready one runs.
PolecatSelectOrderDoneFirst == <<"done", "kill", "stuck", "timer">>

PolecatSelectOrder == <<"kill", "done", "stuck", "timer">>

\* A channel branch is ready when its channel holds a signal.  The timer is
\* created anew by every select!, so it is taken only when it is the one
\* ready branch.
PolecatReady(b) ==
    CASE b = "kill" -> kill_ch > 0
      [] b = "done" -> Len(done_ch) > 0
      [] b = "stuck" -> stuck_ch > 0
      [] b = "timer" -> TRUE

PolecatBranch ==
    LET first == CHOOSE i \in 1..Len(PolecatSelectOrder) :
                    /\ PolecatReady(PolecatSelectOrder[i])
                    /\ \A j \in 1..(i - 1) : ~PolecatReady(PolecatSelectOrder[j])
    IN  PolecatSelectOrder[first]

PolecatPending(b) ==
    [kill |-> kill_ch > 0, done |-> Len(done_ch) > 0, stuck |-> stuck_ch > 0, branch |-> b]

PolecatKill ==
    /\ polecat_pc = "loop"
    /\ PolecatBranch = "kill"
    /\ kill_ch' = kill_ch - 1
    /\ polecat_status' = "zombie"
    /\ exit_reason' = "killed"
    /\ polecat_pc' = "capture"
    /\ polecat_select' = PolecatPending("kill")
    /\ UNCHANGED <<agent_summary, agent_spawned, captured_output, done_ch, stuck_ch,
                   polecat_sent, polecat_calls, reports_sent, mayor_inbox,
                   polecat_result>>
    /\ UNCHANGED agent_alive
    /\ UNCHANGED <<refinery_vars, wi_vars, convoy_vars, molecule_vars, rig_vars, service_vars>>

PolecatDone ==
    /\ polecat_pc = "loop"
    /\ PolecatBranch = "done"
    /\ done_ch' = Tail(done_ch)
    /\ agent_summary' = IF Head(done_ch) = "bad" THEN agent_summary ELSE Head(done_ch)
    /\ polecat_status' = "done"
    /\ exit_reason' = "completed"
    /\ polecat_pc' = "capture"
    /\ polecat_select' = PolecatPending("done")
    /\ UNCHANGED <<agent_spawned, captured_output, kill_ch, stuck_ch, polecat_sent,
                   polecat_calls, reports_sent, mayor_inbox, polecat_result>>
    /\ UNCHANGED agent_alive
    /\ UNCHANGED <<refinery_vars, wi_vars, convoy_vars, molecule_vars, rig_vars, service_vars>>

AfterStuckPcBreaks == "capture"

\* The polecat_stuck branch has no break: the loop goes on.
AfterStuckPc == "loop"

PolecatStuck ==
    /\ polecat_pc = "loop"
    /\ PolecatBranch = "stuck"
    /\ stuck_ch' = stuck_ch - 1
    /\ polecat_status' = "stuck"
    /\ polecat_pc' = AfterStuckPc
    /\ polecat_select' = PolecatPending("stuck")
    /\ UNCHANGED <<exit_reason, agent_summary, agent_spawned,
                   captured_output, kill_ch, done_ch, polecat_sent, polecat_calls,
                   reports_sent, mayor_inbox, polecat_result>>
    /\ UNCHANGED agent_alive
    /\ UNCHANGED <<refinery_vars, wi_vars, convoy_vars, molecule_vars, rig_vars, service_vars>>

\* The 60 s timer fires; the branch schedules check_agent_alive and awaits it.
PolecatTimer ==
    /\ polecat_pc = "loop"
    /\ PolecatBranch = "timer"
    /\ Cardinality({i \in 1..Len(polecat_calls) : polecat_calls[i] = "check_agent_alive"})
         < MaxHeartbeats
    /\ polecat_pc' = "heartbeat"
    /\ polecat_calls' = Append(polecat_calls, "check_agent_alive")
    /\ polecat_select' = PolecatPending("timer")
    /\ UNCHANGED <<polecat_status, exit_reason, agent_summary, agent_spawned,
                   captured_output, kill_ch, done_ch, stuck_ch, polecat_sent,
                   reports_sent, mayor_inbox, polecat_result>>
    /\ UNCHANGED agent_alive
    /\ UNCHANGED <<refinery_vars, wi_vars, convoy_vars, molecule_vars, rig_vars, service_vars>>

\* check_agent_alive runs and returns.  When it runs it returns Ok(HeartbeatOutput)
\* with alive = pty::is_alive(agent_id), whether the session exists or not; it
\* fails only when it does not run to its end (time-out, worker loss).  The
\* workflow tests !hb_result.completed_ok() and never deserializes the output.
PolecatHeartbeat ==
    /\ polecat_pc = "heartbeat"
    /\ \E r \in ActivityResults :
        IF r = "fail"
           THEN /\ polecat_status' = "dead"
                /\ exit_reason' = "agent_died"
                /\ polecat_pc' = "capture"
           ELSE /\ UNCHANGED <<polecat_status, exit_reason>>
                /\ polecat_pc' = "loop"
    /\ UNCHANGED <<agent_summary, agent_spawned, captured_output, kill_ch, done_ch,
                   stuck_ch, polecat_sent, polecat_calls, polecat_select,
                   reports_sent, mayor_inbox, polecat_result>>
    /\ UNCHANGED agent_alive
    /\ UNCHANGED <<refinery_vars, wi_vars, convoy_vars, molecule_vars, rig_vars, service_vars>>

\* Step 4: capture_pane returns (reached only with agent_spawned).
PolecatCapture ==
    /\ polecat_pc = "capture"
    /\ \E c \in CaptureOutcomes :
        captured_output' = IF c = "fail" THEN None ELSE c
    /\ polecat_calls' = Append(polecat_calls, "capture_pane")
    /\ polecat_pc' = "kill_agent"
    /\ UNCHANGED <<polecat_status, exit_reason, agent_summary, agent_spawned,
                   kill_ch, done_ch, stuck_ch, polecat_sent, polecat_select,
                   reports_sent, mayor_inbox, polecat_result>>
    /\ UNCHANGED agent_alive
    /\ UNCHANGED <<refinery_vars, wi_vars, convoy_vars, molecule_vars, rig_vars, service_vars>>

\* Step 5: kill_agent returns; its result is dropped.
PolecatKillAgent ==
    /\ polecat_pc = "kill_agent"
    /\ polecat_calls' = Append(polecat_calls, "kill_agent")
    /\ polecat_pc' = "report"
    /\ UNCHANGED <<polecat_status, exit_reason, agent_summary, agent_spawned,
                   captured_output, kill_ch, done_ch, stuck_ch, polecat_sent,
                   polecat_select, reports_sent, mayor_inbox, polecat_result>>
    \* pty::kill_agent ends the session, unless the activity never ran.
    /\ \E r \in ActivityResults :
        agent_alive' = IF r = "ok" THEN FALSE ELSE agent_alive
    /\ UNCHANGED <<refinery_vars, wi_vars, convoy_vars, molecule_vars, rig_vars, service_vars>>

\* The agent's process ends by itself and its tmux session with it.
PolecatAgentExits ==
    /\ agent_alive
    /\ agent_alive' = FALSE
    /\ UNCHANGED <<polecat_pc, polecat_status, exit_reason, agent_summary,
                   agent_spawned, captured_output, kill_ch, done_ch, stuck_ch,
                   polecat_sent, polecat_calls, polecat_select, reports_sent,
                   mayor_inbox, polecat_result>>
    /\ UNCHANGED <<refinery_vars, wi_vars, convoy_vars, molecule_vars, rig_vars, service_vars>>

PolecatReportSignal ==
    [to |-> "mayor", status |-> polecat_status, summary |-> summary,
     exit_reason |-> exit_reason]

\* Step 6: the log line before the report takes &s[..s.len().min(80)] of the
\* summary; when that panics the workflow task fails before signal_workflow
\* is called, and every retry of the task panics at the same line.  Otherwise
\* signal_workflow("mayor", polecat_report) is awaited; `let _ =` drops an
\* error (the mayor may not be running).
PolecatReport ==
    /\ polecat_pc = "report"
    /\ IF summary # None /\ LogSlicePanics(summary)
          THEN /\ polecat_pc' = "panicked"
               /\ UNCHANGED <<reports_sent, mayor_inbox>>
          ELSE /\ polecat_pc' = "return"
               /\ reports_sent' = Append(reports_sent, PolecatReportSignal)
               /\ \E delivered \in BOOLEAN :
                    mayor_inbox' = IF delivered
                                      THEN Append(mayor_inbox, PolecatReportSignal)
                                      ELSE mayor_inbox
    /\ UNCHANGED <<polecat_status, exit_reason, agent_summary, agent_spawned,
                   captured_output, kill_ch, done_ch, stuck_ch, polecat_sent,
                   polecat_calls, polecat_select, polecat_result>>
    /\ UNCHANGED agent_alive
    /\ UNCHANGED <<refinery_vars, wi_vars, convoy_vars, molecule_vars, rig_vars, service_vars>>

\* Ok(WfExitValue::Normal(PolecatState))
PolecatReturn ==
    /\ polecat_pc = "return"
    /\ polecat_result' = <<[status |-> polecat_status, summary |-> summary]>>
    /\ polecat_pc' = "returned"
    /\ UNCHANGED <<polecat_status, exit_reason, agent_summary, agent_spawned,
                   captured_output, kill_ch, done_ch, stuck_ch, polecat_sent,
                   polecat_calls, polecat_select, reports_sent, mayor_inbox>>
    /\ UNCHANGED agent_alive
    /\ UNCHANGED <<refinery_vars, wi_vars, convoy_vars, molecule_vars, rig_vars, service_vars>>

\* The engine delivers a signal to the running workflow.  Signals that come
\* before make_signal_channel are buffered by the SDK.
PolecatSignalKill ==
    /\ polecat_pc # "returned"
    /\ polecat_sent < MaxPolecatSignals
    /\ polecat_sent' = polecat_sent + 1
    /\ kill_ch' = kill_ch + 1
    /\ UNCHANGED <<polecat_pc, polecat_status, exit_reason, agent_summary,
                   agent_spawned, captured_output, done_ch, stuck_ch, polecat_calls,
                   polecat_select, reports_sent, mayor_inbox, polecat_result>>
    /\ UNCHANGED agent_alive
    /\ UNCHANGED <<refinery_vars, wi_vars, convoy_vars, molecule_vars, rig_vars, service_vars>>

PolecatSignalDone ==
    /\ polecat_pc # "returned"
    /\ polecat_sent < MaxPolecatSignals
    /\ polecat_sent' = polecat_sent + 1
    /\ \E p \in DonePayloads : done_ch' = Append(done_ch, p)
    /\ UNCHANGED <<polecat_pc, polecat_status, exit_reason, agent_summary,
                   agent_spawned, captured_output, kill_ch, stuck_ch, polecat_calls,
                   polecat_select, reports_sent, mayor_inbox, polecat_result>>
    /\ UNCHANGED agent_alive
    /\ UNCHANGED <<refinery_vars, wi_vars, convoy_vars, molecule_vars, rig_vars, service_vars>>

PolecatSignalStuck ==
    /\ polecat_pc # "returned"
    /\ polecat_sent < MaxPolecatSignals
    /\ polecat_sent' = polecat_sent + 1
    /\ stuck_ch' = stuck_ch + 1
    /\ UNCHANGED <<polecat_pc, polecat_status, exit_reason, agent_summary,
                   agent_spawned, captured_output, kill_ch, done_ch, polecat_calls,
                   polecat_select, reports_sent, mayor_inbox, polecat_result>>
    /\ UNCHANGED agent_alive
    /\ UNCHANGED <<refinery_vars, wi_vars, convoy_vars, molecule_vars, rig_vars, service_vars>>

PolecatNext ==
    \/ PolecatWorktree
    \/ PolecatSpawn
    \/ PolecatKill
    \/ PolecatDone
    \/ PolecatStuck
    \/ PolecatTimer
    \/ PolecatHeartbeat
    \/ PolecatCapture
    \/ PolecatKillAgent
    \/ PolecatReport
    \/ PolecatReturn
    \/ PolecatSignalKill
    \/ PolecatSignalDone
    \/ PolecatSignalStuck
    \/ PolecatAgentExits


\* =================================================================
\* Refinery workflow
\* =================================================================

WorkItemIds == {"A", "B"}

\* priority: u8; the values the model enqueues with.
Priorities == {0, 2}

\* BadPayload: a payload that does not deserialize (or no payload).
BadPayload == [bad |-> TRUE]

EnqueuePayloads == {BadPayload} \cup [work_item_id : WorkItemIds, priority : Priorities]

DequeuePayloads == {"bad"} \cup WorkItemIds

\* What the test process of run_plugin may do: exit with code 0, exit with a
\* non-zero code, or not run at all (spawn / stdout / wait error).
TestOutcomes == {"exit_zero", "exit_nonzero", "cannot_run"}

\* run_plugin: Err only when the process could not be spawned, captured or
\* waited for; otherwise Ok(RunPluginOutput { exit_code, .. }) whatever the
\* exit code is.
run_plugin(outcome) == IF outcome = "cannot_run" THEN "fail" ELSE "ok"

BranchOf(id) == <<"polecat", id>>

RefineryEntry(enq) ==
    [work_item_id |-> enq.work_item_id, branch |-> BranchOf(enq.work_item_id),
     priority |-> enq.priority, status |-> "queued"]

RefineryInit ==
    /\ ref_pc = "select"
    /\ queue = <<>>
    /\ processed = <<>>
    /\ ref_idx = 0
    /\ ref_entry = <<>>
    /\ enqueue_ch = <<>>
    /\ dequeue_ch = <<>>
    /\ stop_ch = 0
    /\ ref_sent = 0
    /\ ref_history = [work_item_id |-> None, priority |-> 0, calls |-> <<>>]
    /\ ref_result = <<>>

\* queue.sort_by_key(|e| e.priority): a stable sort.  An entry is inserted
\* behind every entry whose priority is not larger.
RECURSIVE InsertByPriority(_, _)
InsertByPriority(e, s) ==
    IF s = <<>> THEN <<e>>
    ELSE IF Head(s).priority <= e.priority
            THEN <<Head(s)>> \o InsertByPriority(e, Tail(s))
            ELSE <<e>> \o s

RECURSIVE SortFrom(_, _)
SortFrom(sorted, rest) ==
    IF rest = <<>> THEN sorted
    ELSE SortFrom(InsertByPriority(Head(rest), sorted), Tail(rest))

SortByPriority(q) == SortFrom(<<>>, q)

\* queue.iter().position(|e| e.status == "queued"); 0 stands for None.
Position(q) ==
    IF \E i \in 1..Len(q) : q[i].status = "queued"
       THEN CHOOSE i \in 1..Len(q) :
                /\ q[i].status = "queued"
                /\ \A j \in 1..(i - 1) : q[j].status # "queued"
       ELSE 0

RemoveNothing(q, idx) == q

\* queue.remove(idx)
Remove(q, idx) == [i \in 1..(Len(q) - 1) |-> IF i < idx THEN q[i] ELSE q[i + 1]]

\* queue.retain(|e| e.work_item_id != id)
Retain(q, id) == SelectSeq(q, LAMBDA e : e.work_item_id # id)

\* An entry that keeps the status it had in the queue.
KeepStatus(e, st) == e

\* entry.status = "...".to_string()
WithStatus(e, st) == [e EXCEPT !.status = st]

HistCall(h, act, outcome) ==
    [h EXCEPT !.calls = Append(@, <<act, outcome>>)]

\* Head of `while let Some(idx) = ...position(queued)`: the next queued entry
\* becomes validating and its checkout is awaited; with none left the outer loop
\* goes back to the select!.
Drain(q, p, h) ==
    LET idx == Position(q) IN
    /\ processed' = p
    /\ ref_idx' = idx
    /\ IF idx # 0
          THEN /\ queue' = [q EXCEPT ![idx].status = "validating"]
               /\ ref_pc' = "checkout"
               /\ ref_history' = [work_item_id |-> q[idx].work_item_id,
                                  priority |-> q[idx].priority,
                                  calls |-> <<>>]
          ELSE /\ queue' = q
               /\ ref_pc' = "select"
               /\ ref_history' = h

\* tokio::select! { biased; stop, enqueue, dequeue }
RefStop ==
    /\ ref_pc = "select"
    /\ stop_ch > 0
    /\ stop_ch' = stop_ch - 1
    /\ ref_pc' = "stopped"
    /\ ref_result' = <<[queue |-> queue, processed |-> processed]>>
    /\ UNCHANGED <<queue, processed, ref_idx, ref_entry, enqueue_ch, dequeue_ch,
                   ref_sent, ref_history>>
    /\ UNCHANGED <<polecat_vars, wi_vars, convoy_vars, molecule_vars, rig_vars, service_vars>>

RefEnqueue ==
    /\ ref_pc = "select"
    /\ stop_ch = 0
    /\ Len(enqueue_ch) > 0
    /\ enqueue_ch' = Tail(enqueue_ch)
    /\ LET enq == Head(enqueue_ch)
           pushed == IF enq = BadPayload THEN queue ELSE Append(queue, RefineryEntry(enq))
       IN  Drain(SortByPriority(pushed), processed, ref_history)
    /\ UNCHANGED <<ref_entry, dequeue_ch, stop_ch, ref_sent, ref_result>>
    /\ UNCHANGED <<polecat_vars, wi_vars, convoy_vars, molecule_vars, rig_vars, service_vars>>

RefDequeue ==
    /\ ref_pc = "select"
    /\ stop_ch = 0
    /\ Len(enqueue_ch) = 0
    /\ Len(dequeue_ch) > 0
    /\ dequeue_ch' = Tail(dequeue_ch)
    /\ LET deq == Head(dequeue_ch)
           kept == IF deq = "bad" THEN queue ELSE Retain(queue, deq)
       IN  Drain(SortByPriority(kept), processed, ref_history)
    /\ UNCHANGED <<ref_entry, enqueue_ch, stop_ch, ref_sent, ref_result>>
    /\ UNCHANGED <<polecat_vars, wi_vars, convoy_vars, molecule_vars, rig_vars, service_vars>>

\* An early step failed: the entry leaves the queue with the given status and
\* the while loop continues.
RefFail(act, outcome, st) ==
    Drain(Remove(queue, ref_idx),
          Append(processed, WithStatus(queue[ref_idx], st)),
          HistCall(ref_history, act, outcome))

\* An early step succeeded: the next activity is awaited.
RefProceed(act, outcome, pc) ==
    /\ ref_pc' = pc
    /\ ref_history' = HistCall(ref_history, act, outcome)
    /\ UNCHANGED <<queue, processed, ref_idx>>

\* Step 1: git_operation(Checkout branch) returns.
RefCheckout ==
    /\ ref_pc = "checkout"
    /\ \E r \in ActivityResults :
        IF r = "fail"
           THEN RefFail("checkout", r, "checkout_failed")
           ELSE RefProceed("checkout", r, "rebase")
    /\ UNCHANGED <<ref_entry, enqueue_ch, dequeue_ch, stop_ch, ref_sent, ref_result>>
    /\ UNCHANGED <<polecat_vars, wi_vars, convoy_vars, molecule_vars, rig_vars, service_vars>>

\* Step 2: git_operation(Rebase onto main) returns.
RefRebase ==
    /\ ref_pc = "rebase"
    /\ \E r \in ActivityResults :
        IF r = "fail"
           THEN RefFail("rebase", r, "conflict")
           ELSE RefProceed("rebase", r, "tests")
    /\ UNCHANGED <<ref_entry, enqueue_ch, dequeue_ch, stop_ch, ref_sent, ref_result>>
    /\ UNCHANGED <<polecat_vars, wi_vars, convoy_vars, molecule_vars, rig_vars, service_vars>>

\* Step 3: run_plugin(cargo test) returns; the workflow looks at
\* completed_ok() only.
RefTests ==
    /\ ref_pc = "tests"
    /\ \E o \in TestOutcomes :
        IF run_plugin(o) = "fail"
           THEN RefFail("tests", o, "tests_failed")
           ELSE RefProceed("tests", o, "checkout_main")
    /\ UNCHANGED <<ref_entry, enqueue_ch, dequeue_ch, stop_ch, ref_sent, ref_result>>
    /\ UNCHANGED <<polecat_vars, wi_vars, convoy_vars, molecule_vars, rig_vars, service_vars>>

\* Step 4a: git_operation(Checkout main) returns; `let _ =` drops the result.
RefCheckoutMain ==
    /\ ref_pc = "checkout_main"
    /\ \E r \in ActivityResults : RefProceed("checkout_main", r, "merge")
    /\ UNCHANGED <<ref_entry, enqueue_ch, dequeue_ch, stop_ch, ref_sent, ref_result>>
    /\ UNCHANGED <<polecat_vars, wi_vars, convoy_vars, molecule_vars, rig_vars, service_vars>>

\* Step 4b: git_operation(Merge) returns; the entry is removed from the queue,
\* and on success the push is awaited before the entry is pushed to processed.
RefMerge ==
    /\ ref_pc = "merge"
    /\ \E r \in ActivityResults :
        IF r = "ok"
           THEN /\ ref_entry' = <<WithStatus(queue[ref_idx], "merged")>>
                /\ queue' = Remove(queue, ref_idx)
                /\ ref_idx' = 0
                /\ ref_pc' = "push"
                /\ ref_history' = HistCall(ref_history, "merge", r)
                /\ UNCHANGED processed
           ELSE /\ RefFail("merge", r, "merge_failed")
                /\ UNCHANGED ref_entry
    /\ UNCHANGED <<enqueue_ch, dequeue_ch, stop_ch, ref_sent, ref_result>>
    /\ UNCHANGED <<polecat_vars, wi_vars, convoy_vars, molecule_vars, rig_vars, service_vars>>

\* Step 5: git_operation(Push origin main) returns.
RefPush ==
    /\ ref_pc = "push"
    /\ \E r \in ActivityResults :
        Drain(queue,
              Append(processed,
                     IF r = "fail" THEN WithStatus(ref_entry[1], "merged_push_failed")
                                   ELSE ref_entry[1]),
              HistCall(ref_history, "push", r))
    /\ ref_entry' = <<>>
    /\ UNCHANGED <<enqueue_ch, dequeue_ch, stop_ch, ref_sent, ref_result>>
    /\ UNCHANGED <<polecat_vars, wi_vars, convoy_vars, molecule_vars, rig_vars, service_vars>>

\* The engine delivers a signal to the running refinery.
RefSignalEnqueue ==
    /\ ref_pc # "stopped"
    /\ ref_sent < MaxRefSignals
    /\ \E p \in EnqueuePayloads : enqueue_ch' = Append(enqueue_ch, p)
    /\ ref_sent' = ref_sent + 1
    /\ UNCHANGED <<ref_pc, queue, processed, ref_idx, ref_entry, dequeue_ch,
                   stop_ch, ref_history, ref_result>>
    /\ UNCHANGED <<polecat_vars, wi_vars, convoy_vars, molecule_vars, rig_vars, service_vars>>

RefSignalDequeue ==
    /\ ref_pc # "stopped"
    /\ ref_sent < MaxRefSignals
    /\ \E p \in DequeuePayloads : dequeue_ch' = Append(dequeue_ch, p)
    /\ ref_sent' = ref_sent + 1
    /\ UNCHANGED <<ref_pc, queue, processed, ref_idx, ref_entry, enqueue_ch,
                   stop_ch, ref_history, ref_result>>
    /\ UNCHANGED <<polecat_vars, wi_vars, convoy_vars, molecule_vars, rig_vars, service_vars>>

RefSignalStop ==
    /\ ref_pc # "stopped"
    /\ ref_sent < MaxRefSignals
    /\ stop_ch' = stop_ch + 1
    /\ ref_sent' = ref_sent + 1
    /\ UNCHANGED <<ref_pc, queue, processed, ref_idx, ref_entry, enqueue_ch,
                   dequeue_ch, ref_history, ref_result>>
    /\ UNCHANGED <<polecat_vars, wi_vars, convoy_vars, molecule_vars, rig_vars, service_vars>>

RefineryNext ==
    \/ RefStop
    \/ RefEnqueue
    \/ RefDequeue
    \/ RefCheckout
    \/ RefRebase
    \/ RefTests
    \/ RefCheckoutMain
    \/ RefMerge
    \/ RefPush
    \/ RefSignalEnqueue
    \/ RefSignalDequeue
    \/ RefSignalStop

\* Signals one refinery run receives when its progress is checked.
MaxLiveSignals == 2

RefLiveSignalEnqueue ==
    /\ ref_sent < MaxLiveSignals
    /\ RefSignalEnqueue

RefLiveSignalStop ==
    /\ ref_sent < MaxLiveSignals
    /\ RefSignalStop

\* The refinery when no refinery_dequeue signal is ever sent.
RefineryLiveNext ==
    \/ RefStop
    \/ RefEnqueue
    \/ RefCheckout
    \/ RefRebase
    \/ RefTests
    \/ RefCheckoutMain
    \/ RefMerge
    \/ RefPush
    \/ RefLiveSignalEnqueue
    \/ RefLiveSignalStop

\* Every awaited activity eventually returns: each activity has a
\* start_to_close_timeout, after which the await resolves as failed.
RefineryActivitiesReturn ==
    /\ WF_vars(RefCheckout)
    /\ WF_vars(RefRebase)
    /\ WF_vars(RefTests)
    /\ WF_vars(RefCheckoutMain)
    /\ WF_vars(RefMerge)
    /\ WF_vars(RefPush)

\* =================================================================
\* WorkItem workflow
\* =================================================================

\* Signals one work item run receives, over all names.
MaxWiSignals == 3

Agents == {"mayor", "polecat-1"}

\* STALE_TIMEOUT = 4 * 60 * 60 s, in hours.
STALE_TIMEOUT == 4

WiSelectOrderCompleteFirst ==
    <<"assign", "complete", "start", "fail", "close", "release", "heartbeat", "escalate">>

\* The branches of the select!, in the order `biased` polls them.
WiSelectOrder ==
    <<"assign", "start", "complete", "fail", "close", "release", "heartbeat", "escalate">>

WiSignalNames == {WiSelectOrder[i] : i \in 1..Len(WiSelectOrder)}

\* Payloads a signal may carry; "bad" does not deserialize.
WiPayloads(name) ==
    CASE name = "assign" -> Agents \cup {"bad"}
      [] name = "fail" -> {"reason", "bad"}
      [] OTHER -> {"sig"}

WorkItemInit ==
    /\ wi_pc = "loop"
    /\ wi_status = "pending"
    /\ assigned_to = None
    /\ escalation_level = 0
    /\ wi_ch = [n \in WiSignalNames |-> <<>>]
    /\ wi_sent = 0
    /\ wi_stale = 0
    /\ wi_timer = 0
    /\ wi_quiet = 0
    /\ wi_log = <<>>
    /\ notifications = <<>>
    /\ wi_result = <<>>

\* let use_timer = status == "in_progress" || status == "assigned";
use_timer == wi_status = "in_progress" \/ wi_status = "assigned"

\* The branch the select! runs: the first channel in poll order that holds a
\* signal; the staleness timer (only in the use_timer select!) when none does.
WiBranch ==
    IF \E i \in 1..Len(WiSelectOrder) : wi_ch[WiSelectOrder[i]] # <<>>
       THEN WiSelectOrder[CHOOSE i \in 1..Len(WiSelectOrder) :
                             /\ wi_ch[WiSelectOrder[i]] # <<>>
                             /\ \A j \in 1..(i - 1) : wi_ch[WiSelectOrder[j]] = <<>>]
       ELSE IF use_timer THEN "timer" ELSE None

\* A branch of the select! takes its signal; when its handler is over the loop
\* comes back to a select!, which creates a new timer.
WiTake(name) ==
    /\ wi_pc = "loop"
    /\ WiBranch = name
    /\ wi_ch' = [wi_ch EXCEPT ![name] = Tail(@)]
    /\ wi_timer' = 0
    /\ UNCHANGED wi_log

Active == {"assigned", "in_progress"}

\* The hours counted in wi_quiet go on only while the item stays assigned or
\* in_progress.
WiStays == wi_status \in Active /\ wi_status' \in Active

WiQuietGoesOn == wi_quiet' = IF WiStays THEN wi_quiet ELSE 0

AssignAlways == TRUE

\* if *status == "pending"
AssignAllowed == wi_status = "pending"

WorkItemState == <<[status |-> wi_status', assigned_to |-> assigned_to']>>

\* Notification input built by send_escalation_notification.
NotificationInput(level) ==
    [channel |-> "signal", target |-> "mayor", subject |-> <<"Escalation L", level>>]

\* handle_assign
WiAssign ==
    /\ WiTake("assign")
    /\ IF AssignAllowed /\ Head(wi_ch["assign"]) # "bad"
          THEN /\ assigned_to' = Head(wi_ch["assign"])
               /\ wi_status' = "assigned"
          ELSE UNCHANGED <<assigned_to, wi_status>>
    /\ UNCHANGED <<wi_pc, escalation_level, wi_sent, wi_stale, notifications, wi_result>>
    /\ WiQuietGoesOn
    /\ UNCHANGED <<polecat_vars, refinery_vars, convoy_vars, molecule_vars, rig_vars, service_vars>>

WiStart ==
    /\ WiTake("start")
    /\ IF wi_status = "assigned"
          THEN /\ wi_status' = "in_progress"
               /\ escalation_level' = IF use_timer THEN 0 ELSE escalation_level
          ELSE UNCHANGED <<wi_status, escalation_level>>
    /\ UNCHANGED <<wi_pc, assigned_to, wi_sent, wi_stale, notifications, wi_result>>
    /\ WiQuietGoesOn
    /\ UNCHANGED <<polecat_vars, refinery_vars, convoy_vars, molecule_vars, rig_vars, service_vars>>

WiComplete ==
    /\ WiTake("complete")
    /\ UNCHANGED assigned_to
    /\ IF wi_status = "in_progress" \/ wi_status = "assigned"
          THEN /\ wi_status' = "done"
               /\ wi_pc' = "returned"
               /\ wi_result' = WorkItemState
          ELSE UNCHANGED <<wi_status, wi_pc, wi_result>>
    /\ UNCHANGED <<escalation_level, wi_sent, wi_stale, notifications>>
    /\ WiQuietGoesOn
    /\ UNCHANGED <<polecat_vars, refinery_vars, convoy_vars, molecule_vars, rig_vars, service_vars>>

WiFail ==
    /\ WiTake("fail")
    /\ UNCHANGED assigned_to
    /\ IF Head(wi_ch["fail"]) # "bad"
          THEN /\ wi_status' = "failed"
               /\ wi_pc' = "returned"
               /\ wi_result' = WorkItemState
          ELSE UNCHANGED <<wi_status, wi_pc, wi_result>>
    /\ UNCHANGED <<escalation_level, wi_sent, wi_stale, notifications>>
    /\ WiQuietGoesOn
    /\ UNCHANGED <<polecat_vars, refinery_vars, convoy_vars, molecule_vars, rig_vars, service_vars>>

WiClose ==
    /\ WiTake("close")
    /\ UNCHANGED assigned_to
    /\ wi_status' = "closed"
    /\ wi_pc' = "returned"
    /\ wi_result' = WorkItemState
    /\ UNCHANGED <<escalation_level, wi_sent, wi_stale, notifications>>
    /\ WiQuietGoesOn
    /\ UNCHANGED <<polecat_vars, refinery_vars, convoy_vars, molecule_vars, rig_vars, service_vars>>

\* What release leaves in assigned_to.
ReleaseKeepsAssignee == assigned_to

ReleasedAssignee == None

WiRelease ==
    /\ WiTake("release")
    /\ IF wi_status = "assigned" \/ wi_status = "in_progress"
          THEN /\ assigned_to' = ReleasedAssignee
               /\ wi_status' = "pending"
               /\ escalation_level' = IF use_timer THEN 0 ELSE escalation_level
          ELSE UNCHANGED <<assigned_to, wi_status, escalation_level>>
    /\ UNCHANGED <<wi_pc, wi_sent, wi_stale, notifications, wi_result>>
    /\ WiQuietGoesOn
    /\ UNCHANGED <<polecat_vars, refinery_vars, convoy_vars, molecule_vars, rig_vars, service_vars>>

\* A heartbeat only restarts the loop (and with it the staleness timer).
WiHeartbeat ==
    /\ WiTake("heartbeat")
    /\ wi_quiet' = 0
    /\ UNCHANGED <<wi_pc, wi_status, assigned_to, escalation_level, wi_sent,
                   wi_stale, notifications, wi_result>>
    /\ UNCHANGED <<polecat_vars, refinery_vars, convoy_vars, molecule_vars, rig_vars, service_vars>>

WiEscalate ==
    /\ WiTake("escalate")
    /\ escalation_level' = escalation_level + 1
    /\ notifications' = Append(notifications, NotificationInput(escalation_level'))
    /\ UNCHANGED <<wi_pc, wi_status, assigned_to, wi_sent, wi_stale, wi_result>>
    /\ WiQuietGoesOn
    /\ UNCHANGED <<polecat_vars, refinery_vars, convoy_vars, molecule_vars, rig_vars, service_vars>>

\* ctx.timer(STALE_TIMEOUT) fires: no signal came for 4 hours.
WiTimer ==
    /\ wi_pc = "loop"
    /\ WiBranch = "timer"
    /\ wi_timer = STALE_TIMEOUT
    /\ wi_stale < MaxStale
    /\ wi_stale' = wi_stale + 1
    /\ wi_timer' = 0
    /\ wi_quiet' = 0
    /\ escalation_level' = escalation_level + 1
    /\ notifications' = Append(notifications, NotificationInput(escalation_level'))
    /\ UNCHANGED <<wi_pc, wi_status, assigned_to, wi_ch, wi_sent, wi_log, wi_result>>
    /\ UNCHANGED <<polecat_vars, refinery_vars, convoy_vars, molecule_vars, rig_vars, service_vars>>

\* An hour passes while the workflow waits in the use_timer select! with no
\* signal to handle; the timer fires when STALE_TIMEOUT is reached.
WiTick ==
    /\ wi_pc = "loop"
    /\ WiBranch = "timer"
    /\ wi_timer < STALE_TIMEOUT
    /\ wi_timer' = wi_timer + 1
    /\ wi_quiet' = wi_quiet + 1
    /\ UNCHANGED <<wi_pc, wi_status, assigned_to, escalation_level, wi_ch, wi_sent,
                   wi_stale, wi_log, notifications, wi_result>>
    /\ UNCHANGED <<polecat_vars, refinery_vars, convoy_vars, molecule_vars, rig_vars, service_vars>>

\* The engine delivers a signal to the running work item.
WiSignal ==
    /\ wi_pc # "returned"
    /\ wi_sent < MaxWiSignals
    /\ wi_sent' = wi_sent + 1
    /\ \E n \in WiSignalNames : \E p \in WiPayloads(n) :
        /\ wi_ch' = [wi_ch EXCEPT ![n] = Append(@, p)]
        /\ wi_log' = Append(wi_log, <<n, p>>)
    /\ UNCHANGED <<wi_pc, wi_status, assigned_to, escalation_level, wi_stale,
                   wi_timer, wi_quiet, notifications, wi_result>>
    /\ UNCHANGED <<polecat_vars, refinery_vars, convoy_vars, molecule_vars, rig_vars, service_vars>>

WorkItemNext ==
    \/ WiAssign
    \/ WiStart
    \/ WiComplete
    \/ WiFail
    \/ WiClose
    \/ WiRelease
    \/ WiHeartbeat
    \/ WiEscalate
    \/ WiTimer
    \/ WiTick
    \/ WiSignal

\* =================================================================
\* Convoy workflow
\* =================================================================

\* Signals one convoy run receives, over all names.
MaxConvoySignals == 3

ConvoyItemIds == {"wi-1", "wi-2"}

\* add_work_item and item_done payloads, by their work_item_id; "bad" does not
\* deserialize.
ConvoyPayloads == ConvoyItemIds \cup {"bad"}

ConvoyInit ==
    /\ convoy_pc = "loop"
    /\ work_items = <<>>
    /\ completed = {}
    /\ convoy_status = "open"
    /\ add_item_ch = <<>>
    /\ item_done_ch = <<>>
    /\ cancel_ch = 0
    /\ convoy_close_ch = 0
    /\ convoy_sent = 0
    /\ convoy_children = {}
    /\ convoy_result = <<>>

\* completed.into_iter().collect(): the ids of the set in some order.
Collect(S) ==
    {f \in [1..Cardinality(S) -> S] : \A x \in S : \E i \in 1..Cardinality(S) : f[i] = x}

\* return Ok(ConvoyState { id, title, status, work_items, completed_items })
ConvoyReturn(st) ==
    /\ convoy_status' = st
    /\ convoy_pc' = "returned"
    /\ \E c \in Collect(completed') :
        convoy_result' = <<[status |-> st, work_items |-> work_items,
                            completed_items |-> c]>>

\* !work_items.is_empty() && completed.len() == work_items.len()
AllDone(items, done) == items # <<>> /\ Cardinality(done) = Len(items)

\* The add_work_item branch, up to the await of the child's start.
ConvoyAdd ==
    /\ convoy_pc = "loop"
    /\ add_item_ch # <<>>
    /\ add_item_ch' = Tail(add_item_ch)
    /\ IF Head(add_item_ch) # "bad"
          THEN /\ work_items' = Append(work_items, Head(add_item_ch))
               /\ convoy_pc' = "child_start"
          ELSE UNCHANGED <<work_items, convoy_pc>>
    /\ UNCHANGED <<completed, convoy_status, item_done_ch, cancel_ch, convoy_close_ch,
                   convoy_sent, convoy_children, convoy_result>>
    /\ UNCHANGED <<polecat_vars, refinery_vars, wi_vars, molecule_vars, rig_vars, service_vars>>

\* child.start(&ctx).await returns: the child started or it did not.
ConvoyChildStart ==
    /\ convoy_pc = "child_start"
    /\ convoy_pc' = "loop"
    /\ \E r \in {"started", "failed"} :
        convoy_children' = IF r = "started"
                              THEN convoy_children \cup {work_items[Len(work_items)]}
                              ELSE convoy_children
    /\ UNCHANGED <<work_items, completed, convoy_status, add_item_ch, item_done_ch,
                   cancel_ch, convoy_close_ch, convoy_sent, convoy_result>>
    /\ UNCHANGED <<polecat_vars, refinery_vars, wi_vars, molecule_vars, rig_vars, service_vars>>

\* The item_done branch.
ConvoyItemDone ==
    /\ convoy_pc = "loop"
    /\ item_done_ch # <<>>
    /\ item_done_ch' = Tail(item_done_ch)
    /\ IF Head(item_done_ch) # "bad"
          THEN /\ completed' = completed \cup {Head(item_done_ch)}
               /\ IF AllDone(work_items, completed')
                     THEN ConvoyReturn("closed")
                     ELSE UNCHANGED <<convoy_status, convoy_pc, convoy_result>>
          ELSE UNCHANGED <<completed, convoy_status, convoy_pc, convoy_result>>
    /\ UNCHANGED <<work_items, add_item_ch, cancel_ch, convoy_close_ch, convoy_sent,
                   convoy_children>>
    /\ UNCHANGED <<polecat_vars, refinery_vars, wi_vars, molecule_vars, rig_vars, service_vars>>

\* The close branch.
ConvoyClose ==
    /\ convoy_pc = "loop"
    /\ convoy_close_ch > 0
    /\ convoy_close_ch' = convoy_close_ch - 1
    /\ UNCHANGED completed
    /\ ConvoyReturn("closed")
    /\ UNCHANGED <<work_items, add_item_ch, item_done_ch, cancel_ch, convoy_sent,
                   convoy_children>>
    /\ UNCHANGED <<polecat_vars, refinery_vars, wi_vars, molecule_vars, rig_vars, service_vars>>

\* The cancel branch.
ConvoyCancel ==
    /\ convoy_pc = "loop"
    /\ cancel_ch > 0
    /\ cancel_ch' = cancel_ch - 1
    /\ UNCHANGED completed
    /\ ConvoyReturn("cancelled")
    /\ UNCHANGED <<work_items, add_item_ch, item_done_ch, convoy_close_ch, convoy_sent,
                   convoy_children>>
    /\ UNCHANGED <<polecat_vars, refinery_vars, wi_vars, molecule_vars, rig_vars, service_vars>>

\* The engine delivers a signal to the running convoy.
ConvoyDeliver ==
    /\ convoy_pc # "returned"
    /\ convoy_sent < MaxConvoySignals
    /\ convoy_sent' = convoy_sent + 1
    /\ UNCHANGED <<convoy_pc, work_items, completed, convoy_status, convoy_children,
                   convoy_result>>
    /\ UNCHANGED <<polecat_vars, refinery_vars, wi_vars, molecule_vars, rig_vars, service_vars>>

ConvoySignalAdd ==
    /\ ConvoyDeliver
    /\ \E p \in ConvoyPayloads : add_item_ch' = Append(add_item_ch, p)
    /\ UNCHANGED <<item_done_ch, cancel_ch, convoy_close_ch>>

ConvoySignalItemDone ==
    /\ ConvoyDeliver
    /\ \E p \in ConvoyPayloads : item_done_ch' = Append(item_done_ch, p)
    /\ UNCHANGED <<add_item_ch, cancel_ch, convoy_close_ch>>

ConvoySignalClose ==
    /\ ConvoyDeliver
    /\ convoy_close_ch' = convoy_close_ch + 1
    /\ UNCHANGED <<add_item_ch, item_done_ch, cancel_ch>>

ConvoySignalCancel ==
    /\ ConvoyDeliver
    /\ cancel_ch' = cancel_ch + 1
    /\ UNCHANGED <<add_item_ch, item_done_ch, convoy_close_ch>>

\* The select! is not biased: any branch whose channel holds a signal may run.
ConvoyNext ==
    \/ ConvoyAdd
    \/ ConvoyChildStart
    \/ ConvoyItemDone
    \/ ConvoyClose
    \/ ConvoyCancel
    \/ ConvoySignalAdd
    \/ ConvoySignalItemDone
    \/ ConvoySignalClose
    \/ ConvoySignalCancel

\* =================================================================
\* Molecule workflow
\* =================================================================

\* Signals one molecule run receives, over all names.
MaxMolSignals == 3

\* The step_names a molecule may be started with.
StepNameLists == {<<>>, <<"s1">>, <<"s1", "s2">>, <<"s1", "s2", "s3">>}

\* The branches of the select!, in the order `biased` polls them.
MolSelectOrder == <<"cancel", "pause", "resume", "step_done", "step_fail">>

MolSignalNames == {MolSelectOrder[i] : i \in 1..Len(MolSelectOrder)}

\* Payloads by signal name: step_done and step_fail carry a step_ref, of a
\* step or of none ("s9"), or do not deserialize ("bad").
MolPayloads(name) ==
    IF name \in {"step_done", "step_fail"}
       THEN {"s1", "s2", "s3", "s9", "bad"}
       ELSE {"sig"}

MoleculeInit ==
    /\ mol_pc = "start"
    /\ steps = <<>>
    /\ mol_status = "running"
    /\ current_step = None
    /\ mol_ch = [n \in MolSignalNames |-> <<>>]
    /\ mol_sent = 0
    /\ mol_result = <<>>

\* steps.iter().all(|s| s.status == "done" || s.status == "failed")
AllSettled(st) == \A i \in 1..Len(st) : st[i].status \in {"done", "failed"}

\* steps.iter().all(|s| s.status == "done")
all_done(st) == \A i \in 1..Len(st) : st[i].status = "done"

\* break: the loop is left and the MoleculeState is returned.
MolBreak(st, status, cur) ==
    /\ steps' = st
    /\ mol_status' = status
    /\ current_step' = cur
    /\ mol_pc' = "returned"
    /\ mol_result' = <<[status |-> status, steps |-> st, current_step |-> cur]>>

\* The top of the loop: leave when every step is done or failed, else wait in
\* the select!.
MolLoop(st, status, cur) ==
    IF AllSettled(st)
       THEN MolBreak(st, IF all_done(st) THEN "completed" ELSE "failed", cur)
       ELSE /\ steps' = st
            /\ mol_status' = status
            /\ current_step' = cur
            /\ mol_pc' = "loop"
            /\ UNCHANGED mol_result

\* The workflow starts: the steps are built, the first one is in_progress.
MoleculeStart ==
    /\ mol_pc = "start"
    /\ \E names \in StepNameLists :
        MolLoop([i \in 1..Len(names) |->
                    [ref_id |-> names[i],
                     status |-> IF i = 1 THEN "in_progress" ELSE "pending",
                     output |-> None]],
                "running",
                IF names = <<>> THEN None ELSE names[1])
    /\ UNCHANGED <<mol_ch, mol_sent>>
    /\ UNCHANGED <<polecat_vars, refinery_vars, wi_vars, convoy_vars, rig_vars, service_vars>>

MolBranch ==
    IF \E i \in 1..Len(MolSelectOrder) : mol_ch[MolSelectOrder[i]] # <<>>
       THEN MolSelectOrder[CHOOSE i \in 1..Len(MolSelectOrder) :
                              /\ mol_ch[MolSelectOrder[i]] # <<>>
                              /\ \A j \in 1..(i - 1) : mol_ch[MolSelectOrder[j]] = <<>>]
       ELSE None

MolTake(name) ==
    /\ mol_pc = "loop"
    /\ MolBranch = name
    /\ mol_ch' = [mol_ch EXCEPT ![name] = Tail(@)]
    /\ UNCHANGED mol_sent
    /\ UNCHANGED <<polecat_vars, refinery_vars, wi_vars, convoy_vars, rig_vars, service_vars>>

MolCancel ==
    /\ MolTake("cancel")
    /\ MolBreak(steps, "cancelled", current_step)

MolPause ==
    /\ MolTake("pause")
    /\ MolLoop(steps, IF mol_status = "running" THEN "paused" ELSE mol_status,
               current_step)

MolResume ==
    /\ MolTake("resume")
    /\ MolLoop(steps, IF mol_status = "paused" THEN "running" ELSE mol_status,
               current_step)

\* steps.iter_mut().find(|s| s.ref_id == step_ref): its index, 0 for none.
FindStep(st, ref) ==
    IF \E i \in 1..Len(st) : st[i].ref_id = ref
       THEN CHOOSE i \in 1..Len(st) :
                /\ st[i].ref_id = ref
                /\ \A j \in 1..(i - 1) : st[j].ref_id # ref
       ELSE 0

\* The step found gets the status and the output; nothing when none is found.
MarkStep(st, ref, status, out) ==
    IF FindStep(st, ref) = 0
       THEN st
       ELSE [st EXCEPT ![FindStep(st, ref)] = [@ EXCEPT !.status = status, !.output = out]]

\* Index of the first pending step, 0 for none.
FirstPending(st) ==
    IF \E i \in 1..Len(st) : st[i].status = "pending"
       THEN CHOOSE i \in 1..Len(st) :
                /\ st[i].status = "pending"
                /\ \A j \in 1..(i - 1) : st[j].status # "pending"
       ELSE 0

\* Advance to next pending step.
Advance(st) ==
    IF FirstPending(st) = 0
       THEN st
       ELSE [st EXCEPT ![FirstPending(st)].status = "in_progress"]

AdvancedTo(st) ==
    IF FirstPending(st) = 0 THEN None ELSE st[FirstPending(st)].ref_id

MolStepDone ==
    /\ MolTake("step_done")
    /\ IF mol_status = "running" /\ Head(mol_ch["step_done"]) # "bad"
          THEN LET marked == MarkStep(steps, Head(mol_ch["step_done"]), "done", "output")
               IN  MolLoop(Advance(marked), mol_status, AdvancedTo(marked))
          ELSE MolLoop(steps, mol_status, current_step)

MolStepFail ==
    /\ MolTake("step_fail")
    /\ IF mol_status = "running" /\ Head(mol_ch["step_fail"]) # "bad"
          THEN MolBreak(MarkStep(steps, Head(mol_ch["step_fail"]), "failed", "reason"),
                        "failed", current_step)
          ELSE MolLoop(steps, mol_status, current_step)

\* The engine delivers a signal to the running molecule.
MolSignal ==
    /\ mol_pc # "returned"
    /\ mol_sent < MaxMolSignals
    /\ mol_sent' = mol_sent + 1
    /\ \E n \in MolSignalNames : \E p \in MolPayloads(n) :
        mol_ch' = [mol_ch EXCEPT ![n] = Append(@, p)]
    /\ UNCHANGED <<mol_pc, steps, mol_status, current_step, mol_result>>
    /\ UNCHANGED <<polecat_vars, refinery_vars, wi_vars, convoy_vars, rig_vars, service_vars>>

MoleculeNext ==
    \/ MoleculeStart
    \/ MolCancel
    \/ MolPause
    \/ MolResume
    \/ MolStepDone
    \/ MolStepFail
    \/ MolSignal

\* =================================================================
\* Rig workflow
\* =================================================================

\* Signals one rig receives, over all names and incarnations.
MaxRigSignals == 3

\* The input of the first run: a (name, git_url) tuple, or a payload that is
\* neither a RigState nor such a tuple (or no payload).
RigInputs == {<<"rig1", "git://rig1">>, <<"unknown", "">>}

\* The branches of the select!, in the order `biased` polls them.
RigSelectOrder ==
    <<"boot", "stop", "park", "unpark", "dock", "undock", "reg", "unreg">>

RigSignalNames == {RigSelectOrder[i] : i \in 1..Len(RigSelectOrder)}

\* RigAgentEntry payloads of rig_register_agent.
RigAgentEntries ==
    {[agent_id |-> "w1", role |-> "witness"],
     [agent_id |-> "w2", role |-> "witness"],
     [agent_id |-> "r1", role |-> "refinery"],
     [agent_id |-> "p1", role |-> "polecat"],
     [agent_id |-> "c1", role |-> "crew"]}

\* Payloads by signal name; BadPayload and "bad" do not deserialize.
RigPayloads(name) ==
    CASE name = "reg" -> RigAgentEntries \cup {BadPayload}
      [] name = "unreg" -> {e.agent_id : e \in RigAgentEntries} \cup {"bad"}
      [] OTHER -> {"sig"}

\* What discover_session_id gives the workflow: the activity fails, or
\* completes with session_id None, or with the stem of the newest .jsonl.
DiscoverOutcomes == {"fail", None, "sess-1", "sess-2"}

RigInit ==
    /\ rig_pc = "start"
    /\ rig_name = "unknown"
    /\ git_url = ""
    /\ rig_status = "operational"
    /\ rig_agents = <<>>
    /\ polecats = <<>>
    /\ crew = <<>>
    /\ has_witness = FALSE
    /\ has_refinery = FALSE
    /\ witness_session_id = None
    /\ refinery_session_id = None
    /\ from_continue = FALSE
    /\ rig_ch = [n \in RigSignalNames |-> <<>>]
    /\ rig_sent = 0
    /\ rig_last = None
    /\ rig_spawn = <<>>
    /\ rig_args = <<>>

\* The session id fields of RigState, as serialized with the state.
SessionIdFields(w, r) == [witness_session_id |-> w, refinery_session_id |-> r]

\* state.as_json_payload(): the JSON object of the state's fields.
RigStateJson(w, r) ==
    [name |-> rig_name, git_url |-> git_url, status |-> "dormant",
     agents |-> <<>>, polecats |-> <<>>, crew |-> <<>>,
     has_witness |-> FALSE, has_refinery |-> FALSE] @@ SessionIdFields(w, r)

ContinuedStatusOperational == "operational"

\* if from_continue { state.status = "dormant" }
ContinuedStatus == "dormant"

\* A run starts: the first one from its input, a continued one from the
\* RigState its predecessor passed on.
RigStart ==
    /\ rig_pc \in {"start", "continued"}
    /\ rig_pc' = "loop"
    /\ IF rig_pc = "continued"
          THEN /\ rig_name' = rig_args[1].name
               /\ git_url' = rig_args[1].git_url
               /\ rig_status' = ContinuedStatus
               /\ rig_agents' = rig_args[1].agents
               /\ polecats' = rig_args[1].polecats
               /\ crew' = rig_args[1].crew
               /\ has_witness' = rig_args[1].has_witness
               /\ has_refinery' = rig_args[1].has_refinery
               /\ witness_session_id' = rig_args[1].witness_session_id
               /\ refinery_session_id' = rig_args[1].refinery_session_id
               /\ from_continue' = TRUE
          ELSE /\ \E input \in RigInputs :
                    /\ rig_name' = input[1]
                    /\ git_url' = input[2]
               /\ rig_status' = "operational"
               /\ rig_agents' = <<>>
               /\ polecats' = <<>>
               /\ crew' = <<>>
               /\ has_witness' = FALSE
               /\ has_refinery' = FALSE
               /\ witness_session_id' = None
               /\ refinery_session_id' = None
               /\ from_continue' = FALSE
    /\ UNCHANGED <<rig_ch, rig_sent, rig_last, rig_spawn, rig_args>>
    /\ UNCHANGED <<polecat_vars, refinery_vars, wi_vars, convoy_vars, molecule_vars, service_vars>>

RigBranch ==
    IF \E i \in 1..Len(RigSelectOrder) : rig_ch[RigSelectOrder[i]] # <<>>
       THEN RigSelectOrder[CHOOSE i \in 1..Len(RigSelectOrder) :
                              /\ rig_ch[RigSelectOrder[i]] # <<>>
                              /\ \A j \in 1..(i - 1) : rig_ch[RigSelectOrder[j]] = <<>>]
       ELSE None

RigTake(name) ==
    /\ rig_pc = "loop"
    /\ RigBranch = name
    /\ rig_ch' = [rig_ch EXCEPT ![name] = Tail(@)]
    /\ rig_last' = name
    /\ UNCHANGED <<rig_name, git_url, from_continue, rig_sent, rig_args>>
    /\ UNCHANGED <<polecat_vars, refinery_vars, wi_vars, convoy_vars, molecule_vars, service_vars>>

\* spawn_agent, runtime "claude": the arguments the agent is started with.
ClaudeArgs(resume_session_id, initial_prompt) ==
    <<"--dangerously-skip-permissions", "--disable-slash-commands",
      "--disallowedTools=Skill,AskUserQuestion,EnterPlanMode">>
    \o (IF resume_session_id # None THEN <<"--resume", resume_session_id>> ELSE <<>>)
    \o (IF initial_prompt # None THEN <<initial_prompt>> ELSE <<>>)

WitnessResumeNone == None

\* resume_session_id: state.witness_session_id.clone()
WitnessResume == witness_session_id

\* The SpawnAgentInput of a service, and the arguments spawn_agent builds.
SpawnAgentInput(role) ==
    LET resume == IF role = "witness" THEN WitnessResume ELSE refinery_session_id
    IN  [agent_id |-> <<rig_name, role>>, runtime |-> "claude", role |-> role,
         resume_session_id |-> resume,
         args |-> ClaudeArgs(resume, "prompt")]

\* The workflow awaits the spawn_agent activity of a service.
GoSpawn(role) ==
    /\ rig_pc' = "spawn"
    /\ rig_spawn' = <<SpawnAgentInput(role)>>

GoLoop ==
    /\ rig_pc' = "loop"
    /\ UNCHANGED rig_spawn

\* What follows the witness part of the boot: if !state.has_refinery { ... }
AfterService(role) ==
    IF role = "witness" /\ ~has_refinery THEN GoSpawn("refinery") ELSE GoLoop

\* The boot branch, up to its first await.
RigBoot ==
    /\ RigTake("boot")
    /\ IF rig_status = "operational" \/ rig_status = "dormant"
          THEN /\ rig_status' = "operational"
               /\ IF ~has_witness THEN GoSpawn("witness") ELSE AfterService("witness")
          ELSE /\ UNCHANGED rig_status
               /\ GoLoop
    /\ UNCHANGED <<rig_agents, polecats, crew, has_witness, has_refinery,
                   witness_session_id, refinery_session_id>>

\* The spawn_agent activity of the boot returns.
RigSpawned ==
    /\ rig_pc = "spawn"
    /\ \E r \in ActivityResults :
        LET role == rig_spawn[1].role IN
        IF r = "ok"
           THEN /\ has_witness' = IF role = "witness" THEN TRUE ELSE has_witness
                /\ has_refinery' = IF role = "refinery" THEN TRUE ELSE has_refinery
                /\ rig_pc' = "discover"
                /\ UNCHANGED rig_spawn
           ELSE /\ UNCHANGED <<has_witness, has_refinery>>
                /\ AfterService(role)
    /\ UNCHANGED <<rig_name, git_url, rig_status, rig_agents, polecats, crew,
                   witness_session_id, refinery_session_id, from_continue, rig_ch,
                   rig_sent, rig_last, rig_args>>
    /\ UNCHANGED <<polecat_vars, refinery_vars, wi_vars, convoy_vars, molecule_vars, service_vars>>

\* The discover_session_id activity of the boot returns.
RigDiscovered ==
    /\ rig_pc = "discover"
    /\ \E d \in DiscoverOutcomes :
        LET role == rig_spawn[1].role IN
        /\ witness_session_id' =
              IF role = "witness" /\ d # "fail" THEN d ELSE witness_session_id
        /\ refinery_session_id' =
              IF role = "refinery" /\ d # "fail" THEN d ELSE refinery_session_id
        /\ AfterService(role)
    /\ UNCHANGED <<rig_name, git_url, rig_status, rig_agents, polecats, crew,
                   has_witness, has_refinery, from_continue, rig_ch, rig_sent,
                   rig_last, rig_args>>
    /\ UNCHANGED <<polecat_vars, refinery_vars, wi_vars, convoy_vars, molecule_vars, service_vars>>

\* The stop branch: the run ends by continue-as-new; the signals left in the
\* channels of the run end with it.
RigStop ==
    /\ rig_pc = "loop"
    /\ RigBranch = "stop"
    /\ rig_last' = "stop"
    /\ rig_ch' = [n \in RigSignalNames |-> <<>>]
    /\ rig_status' = "dormant"
    /\ has_witness' = FALSE
    /\ has_refinery' = FALSE
    /\ rig_agents' = <<>>
    /\ polecats' = <<>>
    /\ crew' = <<>>
    /\ rig_args' = <<RigStateJson(witness_session_id, refinery_session_id)>>
    /\ rig_pc' = "continued"
    /\ UNCHANGED <<rig_name, git_url, witness_session_id, refinery_session_id,
                   from_continue, rig_sent, rig_spawn>>
    /\ UNCHANGED <<polecat_vars, refinery_vars, wi_vars, convoy_vars, molecule_vars, service_vars>>

LifecycleStatusDockAlways(name) ==
    CASE name = "park" -> IF rig_status = "operational" THEN "parked" ELSE rig_status
      [] name = "unpark" -> IF rig_status = "parked" THEN "operational" ELSE rig_status
      [] name = "dock" -> "docked"
      [] name = "undock" -> IF rig_status = "docked" THEN "operational" ELSE rig_status

\* The status the park, unpark, dock and undock branches leave.
LifecycleStatus(name) ==
    CASE name = "park" -> IF rig_status = "operational" THEN "parked" ELSE rig_status
      [] name = "unpark" -> IF rig_status = "parked" THEN "operational" ELSE rig_status
      [] name = "dock" -> IF rig_status # "dormant" THEN "docked" ELSE rig_status
      [] name = "undock" -> IF rig_status = "docked" THEN "operational" ELSE rig_status

\* The park, unpark, dock and undock branches.
RigLifecycle ==
    /\ \E name \in {"park", "unpark", "dock", "undock"} :
        /\ RigTake(name)
        /\ rig_status' = LifecycleStatus(name)
    /\ GoLoop
    /\ UNCHANGED <<rig_agents, polecats, crew, has_witness, has_refinery,
                   witness_session_id, refinery_session_id>>

\* The rig_register_agent branch.
RigRegister ==
    /\ RigTake("reg")
    /\ GoLoop
    /\ LET data == Head(rig_ch["reg"]) IN
       IF data # BadPayload
          THEN /\ has_witness' = IF data.role = "witness" THEN TRUE ELSE has_witness
               /\ has_refinery' = IF data.role = "refinery" THEN TRUE ELSE has_refinery
               /\ polecats' = IF data.role = "polecat"
                                 THEN Append(polecats, data.agent_id) ELSE polecats
               /\ crew' = IF data.role = "crew" THEN Append(crew, data.agent_id) ELSE crew
               /\ rig_agents' = Append(rig_agents, data)
          ELSE UNCHANGED <<has_witness, has_refinery, polecats, crew, rig_agents>>
    /\ UNCHANGED <<rig_status, witness_session_id, refinery_session_id>>

\* state.agents.iter().position(|a| a.agent_id == id): its index, 0 for none.
AgentPosition(id) ==
    IF \E i \in 1..Len(rig_agents) : rig_agents[i].agent_id = id
       THEN CHOOSE i \in 1..Len(rig_agents) :
                /\ rig_agents[i].agent_id = id
                /\ \A j \in 1..(i - 1) : rig_agents[j].agent_id # id
       ELSE 0

\* list.retain(|p| p != &id)
RetainNot(list, id) == SelectSeq(list, LAMBDA p : p # id)

\* The rig_unregister_agent branch.
RigUnregister ==
    /\ RigTake("unreg")
    /\ GoLoop
    /\ LET id == Head(rig_ch["unreg"])
           pos == AgentPosition(id)
       IN  IF id # "bad" /\ pos # 0
              THEN LET removed == rig_agents[pos] IN
                   /\ rig_agents' = Remove(rig_agents, pos)
                   /\ has_witness' = IF removed.role = "witness" THEN FALSE ELSE has_witness
                   /\ has_refinery' = IF removed.role = "refinery" THEN FALSE ELSE has_refinery
                   /\ polecats' = IF removed.role = "polecat"
                                     THEN RetainNot(polecats, id) ELSE polecats
                   /\ crew' = IF removed.role = "crew" THEN RetainNot(crew, id) ELSE crew
              ELSE UNCHANGED <<has_witness, has_refinery, polecats, crew, rig_agents>>
    /\ UNCHANGED <<rig_status, witness_session_id, refinery_session_id>>

\* The engine delivers a signal to the rig.
RigSignal ==
    /\ rig_sent < MaxRigSignals
    /\ rig_sent' = rig_sent + 1
    /\ \E n \in RigSignalNames : \E p \in RigPayloads(n) :
        rig_ch' = [rig_ch EXCEPT ![n] = Append(@, p)]
    /\ UNCHANGED <<rig_pc, rig_name, git_url, rig_status, rig_agents, polecats, crew,
                   has_witness, has_refinery, witness_session_id, refinery_session_id,
                   from_continue, rig_last, rig_spawn, rig_args>>
    /\ UNCHANGED <<polecat_vars, refinery_vars, wi_vars, convoy_vars, molecule_vars, service_vars>>

RigNext ==
    \/ RigStart
    \/ RigBoot
    \/ RigSpawned
    \/ RigDiscovered
    \/ RigStop
    \/ RigLifecycle
    \/ RigRegister
    \/ RigUnregister
    \/ RigSignal

\* =================================================================
\* Process supervisor (pty.rs)
\* =================================================================

\* Calls made to the supervisor in one run, over all agents.
MaxPtyCalls == 3

PtyAgents == {"mayor", "nux"}

PtyInit ==
    /\ pty_session = [a \in PtyAgents |-> FALSE]
    /\ pty_dir = [a \in PtyAgents |-> FALSE]
    /\ pty_pidfile = [a \in PtyAgents |-> FALSE]
    /\ pty_proc = [a \in PtyAgents |-> FALSE]
    /\ pty_log = <<>>
    /\ pty_ret = [op |-> None, agent |-> None, ok |-> TRUE, value |-> FALSE]

\* tmux has-session -t gtr-<id>
is_alive(a) == pty_session[a]

\* The pane's PID from tmux list-panes, else from the pid file: is it Some.
read_pid(a) == pty_session[a] \/ pty_pidfile[a]

\* Whether runtime_dir(id) exists after cleanup(id).
cleanupKeepsDir(exists) == exists

cleanup(exists) == FALSE

PtyCall(op, a) ==
    /\ Len(pty_log) < MaxPtyCalls
    /\ pty_log' = Append(pty_log, <<op, a>>)

\* spawn(id): create the runtime directory and env.json, start the session,
\* read the pane's PID and write the pid file.  new-session fails when the
\* session exists; the PID cannot be read when the command has ended already.
PtySpawn ==
    \E a \in PtyAgents, ended \in BOOLEAN :
        /\ PtyCall("spawn", a)
        /\ pty_dir' = [pty_dir EXCEPT ![a] = TRUE]
        /\ IF pty_session[a]
              THEN /\ ~ended
                   /\ pty_ret' = [op |-> "spawn", agent |-> a, ok |-> FALSE,
                                  value |-> FALSE]
                   /\ UNCHANGED <<pty_session, pty_proc, pty_pidfile>>
              ELSE /\ pty_session' = [pty_session EXCEPT ![a] = ~ended]
                   /\ pty_proc' = [pty_proc EXCEPT ![a] = @ \/ ~ended]
                   /\ pty_pidfile' = [pty_pidfile EXCEPT ![a] = @ \/ ~ended]
                   /\ pty_ret' = [op |-> "spawn", agent |-> a, ok |-> ~ended,
                                  value |-> FALSE]
        /\ UNCHANGED <<workflow_vars, pty_others>>

\* The agent's command ends by itself and tmux ends the session; processes
\* the agent started may stay.
PtyAgentExit ==
    \E a \in PtyAgents, left \in BOOLEAN :
        /\ pty_session[a]
        /\ pty_session' = [pty_session EXCEPT ![a] = FALSE]
        /\ pty_proc' = [pty_proc EXCEPT ![a] = left]
        /\ UNCHANGED <<pty_dir, pty_pidfile, pty_log, pty_ret>>
        /\ UNCHANGED <<workflow_vars, pty_others>>

\* cleanup(id)
PtyCleanup ==
    \E a \in PtyAgents :
        /\ PtyCall("cleanup", a)
        /\ pty_dir' = [pty_dir EXCEPT ![a] = cleanup(@)]
        /\ pty_pidfile' = [pty_pidfile EXCEPT ![a] = @ /\ pty_dir'[a]]
        /\ pty_ret' = [op |-> "cleanup", agent |-> a, ok |-> TRUE, value |-> FALSE]
        /\ UNCHANGED <<pty_session, pty_proc>>
        /\ UNCHANGED <<workflow_vars, pty_others>>

\* kill_agent(id): read the PID, kill the session, kill the process group of
\* the PID when there is one, clean up; Ok(session_existed || pane_pid.is_some()).
PtyKillAgent ==
    \E a \in PtyAgents :
        /\ PtyCall("kill_agent", a)
        /\ pty_session' = [pty_session EXCEPT ![a] = FALSE]
        /\ pty_proc' = [pty_proc EXCEPT ![a] = @ /\ ~read_pid(a)]
        /\ pty_dir' = [pty_dir EXCEPT ![a] = cleanup(@)]
        /\ pty_pidfile' = [pty_pidfile EXCEPT ![a] = @ /\ pty_dir'[a]]
        /\ pty_ret' = [op |-> "kill_agent", agent |-> a, ok |-> TRUE,
                       value |-> is_alive(a) \/ read_pid(a)]
        /\ UNCHANGED <<workflow_vars, pty_others>>

PtyNext ==
    \/ PtySpawn
    \/ PtyAgentExit
    \/ PtyCleanup
    \/ PtyKillAgent

\* =================================================================
\* Gate workflow
\* =================================================================

\* Signals delivered to one gate run, over both names.
MaxGateSignals == 4

\* The workflow argument: a GateType variant, or "bad" for arguments that are
\* missing or do not deserialize.
GateArgs == {"Timer", "Human", "Mail", "bad"}

GateSignalNames == {"close", "approve"}

GateInit ==
    /\ gate_pc = "start"
    /\ gate_type = None
    /\ gate_status = "waiting"
    /\ gate_ch = [n \in GateSignalNames |-> 0]
    /\ gate_sent = 0
    /\ gate_result = <<>>

\* The arguments are read (Human when they do not deserialize) and the
\* channels are made; the workflow awaits the select! of its gate type.
GateStart ==
    /\ gate_pc = "start"
    /\ \E a \in GateArgs : gate_type' = IF a = "bad" THEN "Human" ELSE a
    /\ gate_pc' = "select"
    /\ UNCHANGED <<gate_status, gate_ch, gate_sent, gate_result>>
    /\ UNCHANGED <<workflow_vars, gate_others>>

\* The select! ends with the given status and the workflow returns GateState.
GateEnds(status) ==
    /\ gate_status' = status
    /\ gate_result' = <<[gate_type |-> gate_type, status |-> status]>>
    /\ gate_pc' = "returned"
    /\ UNCHANGED <<gate_type, gate_sent>>
    /\ UNCHANGED <<workflow_vars, gate_others>>

\* Whether the select! of the gate type has an approve_ch branch.
GateApprovesAlways(type) == TRUE

GateApproves(type) == type \in {"Human", "Mail"}

\* biased; close_ch is polled first in every gate type.
GateClose ==
    /\ gate_pc = "select"
    /\ gate_ch["close"] > 0
    /\ gate_ch' = [gate_ch EXCEPT !["close"] = @ - 1]
    /\ GateEnds("closed")

GateApprove ==
    /\ gate_pc = "select"
    /\ GateApproves(gate_type)
    /\ gate_ch["close"] = 0
    /\ gate_ch["approve"] > 0
    /\ gate_ch' = [gate_ch EXCEPT !["approve"] = @ - 1]
    /\ GateEnds("approved")

\* The timer of a Timer gate fires after duration_secs.
GateTimer ==
    /\ gate_pc = "select"
    /\ gate_type = "Timer"
    /\ gate_ch["close"] = 0
    /\ UNCHANGED gate_ch
    /\ GateEnds("closed")

\* The engine delivers gate_close or gate_approve; a signal that comes after
\* the select! has ended is never read.
GateSignal ==
    \E n \in GateSignalNames :
        /\ gate_sent < MaxGateSignals
        /\ gate_sent' = gate_sent + 1
        /\ gate_ch' = [gate_ch EXCEPT ![n] = @ + 1]
        /\ UNCHANGED <<gate_pc, gate_type, gate_status, gate_result>>
        /\ UNCHANGED <<workflow_vars, gate_others>>

GateNext ==
    \/ GateStart
    \/ GateClose
    \/ GateApprove
    \/ GateTimer
    \/ GateSignal

\* =================================================================
\* Mayor workflow
\* =================================================================

\* Signals delivered to one mayor run, over all names.
MaxMayorSignals == 3

MayorSignalNames ==
    {"register", "unregister", "status", "add_convoy", "convoy_closed", "report", "stop"}

\* Summaries of a report.  "wide_text" is a summary that is longer than the
\* cut of the log line and has a multi-byte character lying across the cut.
ReportSummaries == {None, "pane_text", "wide_text"}

\* The payloads a signal of the name may carry.  The agent p2 is never
\* registered.
MayorPayloads(n) ==
    CASE n = "register" -> {BadPayload, [agent_id |-> "p1", role |-> "polecat"]}
      [] n = "unregister" -> {[agent_id |-> "p1"]}
      [] n = "status" ->
            {[agent_id |-> "p1", status |-> "working", current_work |-> None]}
      [] n = "report" ->
            {BadPayload,
             [polecat_id |-> "p1", work_item_id |-> "wi-1", status |-> "done",
              summary |-> None],
             [polecat_id |-> "p2", work_item_id |-> "wi-2", status |-> "dead",
              summary |-> "pane_text"],
             [polecat_id |-> "p1", work_item_id |-> "wi-3", status |-> "zombie",
              summary |-> "wide_text"]}
      [] n \in {"add_convoy", "convoy_closed"} -> {[convoy_id |-> "c1"]}
      [] OTHER -> {[none |-> TRUE]}

MayorInit ==
    /\ mayor_pc = "loop"
    /\ mayor_agents = <<>>
    /\ active_convoys = <<>>
    /\ polecat_reports = <<>>
    /\ mayor_ch = [n \in MayorSignalNames |-> <<>>]
    /\ mayor_sent = 0
    /\ mayor_result = <<>>

\* The select! is not biased: the branch of any channel that holds a signal
\* may run.
MayorTake(n) ==
    /\ mayor_pc = "loop"
    /\ mayor_ch[n] # <<>>
    /\ mayor_ch' = [mayor_ch EXCEPT ![n] = Tail(@)]
    /\ UNCHANGED mayor_sent
    /\ UNCHANGED <<workflow_vars, mayor_others>>

\* agents.iter_mut().find(|a| a.agent_id == id): status and current_work of
\* the first entry with the id are written.
MayorAgentSet(agents, id, status, work) ==
    LET found == {i \in 1..Len(agents) : agents[i].agent_id = id}
    IN  IF found = {}
           THEN agents
           ELSE LET first == CHOOSE i \in found : \A j \in found : i <= j
                IN  [agents EXCEPT ![first] =
                        [@ EXCEPT !.status = status, !.current_work = work]]

\* The register, unregister, agent status, add convoy and convoy closed
\* branches.
MayorBookkeeping ==
    \E n \in {"register", "unregister", "status", "add_convoy", "convoy_closed"} :
        /\ MayorTake(n)
        /\ LET p == Head(mayor_ch[n])
               bad == p = BadPayload
           IN  /\ mayor_agents' =
                    CASE bad -> mayor_agents
                      [] n = "register" ->
                            IF \E i \in 1..Len(mayor_agents) :
                                    mayor_agents[i].agent_id = p.agent_id
                               THEN mayor_agents
                               ELSE Append(mayor_agents,
                                           [agent_id |-> p.agent_id, role |-> p.role,
                                            status |-> "idle", current_work |-> None])
                      [] n = "unregister" ->
                            SelectSeq(mayor_agents, LAMBDA a : a.agent_id # p.agent_id)
                      [] n = "status" ->
                            MayorAgentSet(mayor_agents, p.agent_id, p.status,
                                          p.current_work)
                      [] OTHER -> mayor_agents
               /\ active_convoys' =
                    CASE bad -> active_convoys
                      [] n = "add_convoy" ->
                            IF \E i \in 1..Len(active_convoys) :
                                    active_convoys[i] = p.convoy_id
                               THEN active_convoys
                               ELSE Append(active_convoys, p.convoy_id)
                      [] n = "convoy_closed" ->
                            SelectSeq(active_convoys, LAMBDA c : c # p.convoy_id)
                      [] OTHER -> active_convoys
        /\ UNCHANGED <<mayor_pc, polecat_reports, mayor_result>>

ReportsPushFront(reports, report) == <<report>> \o reports

\* polecat_reports.push(report)
ReportsPush(reports, report) == Append(reports, report)

\* The polecat_report branch.  A panic fails the workflow task, which the
\* engine retries with the same history: the mayor handles nothing more.
MayorReport ==
    LET p == Head(mayor_ch["report"])
    IN  IF mayor_ch["report"] # <<>> /\ p # BadPayload /\ LogSlicePanics(p.summary)
           THEN /\ mayor_pc = "loop"
                /\ mayor_pc' = "panicked"
                /\ UNCHANGED <<mayor_agents, active_convoys, polecat_reports,
                               mayor_ch, mayor_sent, mayor_result>>
                /\ UNCHANGED <<workflow_vars, mayor_others>>
           ELSE /\ MayorTake("report")
                /\ IF p = BadPayload
                      THEN UNCHANGED <<mayor_agents, polecat_reports>>
                      ELSE /\ mayor_agents' =
                                MayorAgentSet(mayor_agents, p.polecat_id, p.status,
                                              p.work_item_id)
                           /\ polecat_reports' = ReportsPush(polecat_reports, p)
                /\ UNCHANGED <<mayor_pc, active_convoys, mayor_result>>

\* The mayor_stop branch returns MayorState.
MayorStop ==
    /\ MayorTake("stop")
    /\ mayor_pc' = "returned"
    /\ mayor_result' = <<[active_convoys |-> active_convoys, agents |-> mayor_agents,
                          polecat_reports |-> polecat_reports]>>
    /\ UNCHANGED <<mayor_agents, active_convoys, polecat_reports>>

\* The engine delivers a signal to the mayor.
MayorSignal ==
    \E n \in MayorSignalNames : \E p \in MayorPayloads(n) :
        /\ mayor_pc # "returned"
        /\ mayor_sent < MaxMayorSignals
        /\ mayor_sent' = mayor_sent + 1
        /\ mayor_ch' = [mayor_ch EXCEPT ![n] = Append(@, p)]
        /\ UNCHANGED <<mayor_pc, mayor_agents, active_convoys, polecat_reports,
                       mayor_result>>
        /\ UNCHANGED <<workflow_vars, mayor_others>>

MayorNext ==
    \/ MayorBookkeeping
    \/ MayorReport
    \/ MayorStop
    \/ MayorSignal

\* =================================================================
\* Witness workflow
\* =================================================================

\* Cycles of one witness run.
MaxChecks == 12

\* The ids the first cycle seeds: {rig}-polecat-{0..3}.
SeededPolecats == <<"r-polecat-0", "r-polecat-1", "r-polecat-2", "r-polecat-3">>

WitnessPolecats == {SeededPolecats[i] : i \in 1..Len(SeededPolecats)}

\* What one check_agent_alive may come to: it completes with alive = true,
\* it completes with alive = false (no session), or the activity fails.  The
\* first polecat runs through all three, the second may fail, the others
\* stay alive.
HeartbeatOutcomes(p) ==
    CASE p = "r-polecat-0" -> {"alive", "not_alive", "fail"}
      [] p = "r-polecat-1" -> {"alive", "fail"}
      [] OTHER -> {"alive"}

WitnessInit ==
    /\ witness_pc = "loop"
    /\ checks = 0
    /\ alerts_sent = 0
    /\ last_alive = [p \in WitnessPolecats |-> None]
    /\ dead_counts = [p \in WitnessPolecats |-> 0]
    /\ tracked_polecats = <<>>
    /\ witness_stop_ch = 0
    /\ witness_note = <<>>
    /\ found_dead = [p \in WitnessPolecats |-> 0]
    /\ witness_result = <<>>

\* let alive = result.completed_ok()
WitnessAlive(outcome) == outcome # "fail"

\* *dead_count >= 3 && *dead_count % 6 == 3
WitnessAlerts(dead_count) == dead_count >= 3 /\ dead_count % 6 = 3

\* One cycle: the timer fires, every tracked polecat is checked in turn, and
\* one notification at most is sent.  Nothing else reads or writes the
\* state of the witness between the awaits of a cycle, so the cycle is one
\* step.
WitnessCycle ==
    /\ witness_pc = "loop"
    /\ witness_stop_ch = 0
    /\ checks < MaxChecks
    /\ checks' = checks + 1
    /\ tracked_polecats' = IF tracked_polecats = <<>> THEN SeededPolecats
                                                     ELSE tracked_polecats
    /\ \E outcome \in [WitnessPolecats -> {"alive", "not_alive", "fail"}] :
        /\ \A p \in WitnessPolecats : outcome[p] \in HeartbeatOutcomes(p)
        /\ last_alive' = [p \in WitnessPolecats |-> WitnessAlive(outcome[p])]
        /\ dead_counts' = [p \in WitnessPolecats |->
                              IF WitnessAlive(outcome[p]) THEN 0 ELSE dead_counts[p] + 1]
        /\ found_dead' = [p \in WitnessPolecats |->
                              IF outcome[p] = "alive" THEN 0 ELSE found_dead[p] + 1]
    /\ LET dead_polecats ==
               SelectSeq(tracked_polecats',
                         LAMBDA p : ~last_alive'[p] /\ WitnessAlerts(dead_counts'[p]))
           alive_count == Cardinality({p \in WitnessPolecats : last_alive'[p]})
       IN  IF dead_polecats # <<>>
              THEN /\ witness_note' = <<[subject |-> "dead polecats",
                                         dead |-> dead_polecats]>>
                   /\ alerts_sent' = alerts_sent + Len(dead_polecats)
              ELSE /\ witness_note' =
                        IF checks' % 12 = 0
                           THEN <<[subject |-> "health", check |-> checks',
                                   alive_count |-> alive_count,
                                   alerts_sent |-> alerts_sent]>>
                           ELSE <<>>
                   /\ UNCHANGED alerts_sent
    /\ UNCHANGED <<witness_pc, witness_stop_ch, witness_result>>
    /\ UNCHANGED <<workflow_vars, witness_others>>

\* biased; stop_ch is polled before the timer.
WitnessStop ==
    /\ witness_pc = "loop"
    /\ witness_stop_ch > 0
    /\ witness_stop_ch' = witness_stop_ch - 1
    /\ witness_pc' = "returned"
    /\ witness_result' = <<[checks |-> checks, alerts_sent |-> alerts_sent,
                            tracked_polecats |-> Len(tracked_polecats)]>>
    /\ UNCHANGED <<checks, alerts_sent, last_alive, dead_counts, tracked_polecats,
                   witness_note, found_dead>>
    /\ UNCHANGED <<workflow_vars, witness_others>>

\* The engine delivers agent_stop.
WitnessSignalStop ==
    /\ witness_pc = "loop"
    /\ witness_stop_ch = 0
    /\ witness_stop_ch' = 1
    /\ UNCHANGED <<witness_pc, checks, alerts_sent, last_alive, dead_counts,
                   tracked_polecats, witness_note, found_dead, witness_result>>
    /\ UNCHANGED <<workflow_vars, witness_others>>

WitnessNext ==
    \/ WitnessCycle
    \/ WitnessStop
    \/ WitnessSignalStop

\* =================================================================
\* Boot workflow
\* =================================================================

\* Health ticks of one boot run.
MaxBootChecks == 4

BootInit ==
    /\ boot_pc = "spawn"
    /\ boot_checks = 0
    /\ boot_spawned = <<>>
    /\ boot_alive = FALSE
    /\ boot_stop_ch = 0
    /\ boot_probed = None
    /\ boot_respawned = FALSE
    /\ boot_result = <<>>

\* spawn_agent: fails when the session is alive already, else starts it unless
\* the spawn fails.
BootSpawnAgent(ok) ==
    /\ ok \in BOOLEAN
    /\ boot_alive => ~ok
    /\ boot_alive' = (boot_alive \/ ok)

\* The initial spawn_agent of the mayor returns.
BootSpawn ==
    /\ boot_pc = "spawn"
    /\ \E ok \in BOOLEAN :
        /\ BootSpawnAgent(ok)
        /\ boot_spawned' = IF ok THEN <<"mayor">> ELSE <<>>
    /\ boot_pc' = "loop"
    /\ UNCHANGED <<boot_checks, boot_stop_ch, boot_probed, boot_respawned, boot_result>>
    /\ UNCHANGED <<workflow_vars, boot_others>>

\* The timer of the select! fires and the tick begins; with nothing spawned
\* the tick is over at once.
BootTimer ==
    /\ boot_pc = "loop"
    /\ boot_stop_ch = 0
    /\ boot_checks < MaxBootChecks
    /\ boot_checks' = boot_checks + 1
    /\ boot_probed' = None
    /\ boot_respawned' = FALSE
    /\ boot_pc' = IF boot_spawned = <<>> THEN "loop" ELSE "probe"
    /\ UNCHANGED <<boot_spawned, boot_alive, boot_stop_ch, boot_result>>
    /\ UNCHANGED <<workflow_vars, boot_others>>

\* if !result.completed_ok() { dead_agents.push(..) }: the output of
\* check_agent_alive is not read.
BootDead(r) == r = "fail"

\* check_agent_alive of the spawned agent runs and returns: it completes with
\* alive = pty::is_alive(id) unless the activity fails.
BootProbe ==
    /\ boot_pc = "probe"
    /\ boot_probed' = IF boot_alive THEN "alive" ELSE "not_alive"
    /\ \E r \in ActivityResults :
        boot_pc' = IF BootDead(r) THEN "respawn" ELSE "loop"
    /\ UNCHANGED <<boot_checks, boot_spawned, boot_alive, boot_stop_ch,
                   boot_respawned, boot_result>>
    /\ UNCHANGED <<workflow_vars, boot_others>>

\* The spawn_agent of a dead agent returns; its result is only logged.
BootRespawn ==
    /\ boot_pc = "respawn"
    /\ \E ok \in BOOLEAN : BootSpawnAgent(ok)
    /\ boot_respawned' = TRUE
    /\ boot_pc' = "loop"
    /\ UNCHANGED <<boot_checks, boot_spawned, boot_stop_ch, boot_probed, boot_result>>
    /\ UNCHANGED <<workflow_vars, boot_others>>

\* biased; stop_ch is polled before the timer.
BootStop ==
    /\ boot_pc = "loop"
    /\ boot_stop_ch > 0
    /\ boot_stop_ch' = boot_stop_ch - 1
    /\ boot_pc' = "returned"
    /\ boot_result' = <<[checks |-> boot_checks, spawned |-> boot_spawned]>>
    /\ UNCHANGED <<boot_checks, boot_spawned, boot_alive, boot_probed, boot_respawned>>
    /\ UNCHANGED <<workflow_vars, boot_others>>

\* The engine delivers agent_stop.
BootSignalStop ==
    /\ boot_pc # "returned"
    /\ boot_stop_ch = 0
    /\ boot_stop_ch' = 1
    /\ UNCHANGED <<boot_pc, boot_checks, boot_spawned, boot_alive, boot_probed,
                   boot_respawned, boot_result>>
    /\ UNCHANGED <<workflow_vars, boot_others>>

\* The mayor's process ends by itself and its session with it.
BootAgentExits ==
    /\ boot_alive
    /\ boot_alive' = FALSE
    /\ UNCHANGED <<boot_pc, boot_checks, boot_spawned, boot_stop_ch, boot_probed,
                   boot_respawned, boot_result>>
    /\ UNCHANGED <<workflow_vars, boot_others>>

BootNext ==
    \/ BootSpawn
    \/ BootTimer
    \/ BootProbe
    \/ BootRespawn
    \/ BootStop
    \/ BootSignalStop
    \/ BootAgentExits

\* =================================================================
\* Formula (gtr-core/src/formula.rs)
\* =================================================================

\* Steps of a formula.
MaxFormulaSteps == 3

StepNames == {"a", "b", "c"}

\* The depends_on lists a step may have; a name that no step of the formula
\* has is an unknown dependency.
DependsOnLists ==
    {<<>>, <<"a">>, <<"b">>, <<"c">>, <<"a", "b">>, <<"a", "a">>}

FormulaInit ==
    /\ formula_pc = "build"
    /\ formula_steps = <<>>
    /\ topo_result = <<>>

\* The loader reads one more [[steps]] table.
FormulaAddStep ==
    /\ formula_pc = "build"
    /\ Len(formula_steps) < MaxFormulaSteps
    /\ \E name \in StepNames, deps \in DependsOnLists :
        formula_steps' = Append(formula_steps, [name |-> name, depends_on |-> deps])
    /\ UNCHANGED <<formula_pc, topo_result>>
    /\ UNCHANGED <<workflow_vars, formula_others>>

\* name_to_idx.get(name): collect() keeps the last index of a name; 0 stands
\* for None.
NameToIdx(fsteps, name) ==
    LET found == {i \in 1..Len(fsteps) : fsteps[i].name = name}
    IN  IF found = {} THEN 0 ELSE CHOOSE i \in found : \A j \in found : j <= i

RECURSIVE AdjOf(_, _, _, _)
\* adj[j] as the loops over steps and their depends_on fill it, from the
\* dependency k of the step i on.
AdjOf(fsteps, j, i, k) ==
    IF i > Len(fsteps) THEN <<>>
    ELSE IF k > Len(fsteps[i].depends_on) THEN AdjOf(fsteps, j, i + 1, 1)
    ELSE (IF NameToIdx(fsteps, fsteps[i].depends_on[k]) = j THEN <<i>> ELSE <<>>)
            \o AdjOf(fsteps, j, i, k + 1)

\* if in_degree[next] == 0 { queue.push(next) }
InDegreeAtMostOne(d) == d <= 1

InDegreeZero(d) == d = 0

RECURSIVE Relax(_, _, _)
\* for &next in &adj[idx] { in_degree[next] -= 1; ... }
Relax(nexts, stack, in_degree) ==
    IF nexts = <<>>
       THEN [stack |-> stack, in_degree |-> in_degree]
       ELSE LET next == Head(nexts)
                d == in_degree[next] - 1
            IN  Relax(Tail(nexts),
                      IF InDegreeZero(d) THEN Append(stack, next) ELSE stack,
                      [in_degree EXCEPT ![next] = d])

RECURSIVE KahnLoop(_, _, _, _)
\* while let Some(idx) = queue.pop() { order.push(..); ... }; a step index
\* stands for &self.steps[idx].
KahnLoop(adj, stack, in_degree, order) ==
    IF stack = <<>>
       THEN order
       ELSE LET idx == stack[Len(stack)]
                r == Relax(adj[idx], SubSeq(stack, 1, Len(stack) - 1), in_degree)
            IN  KahnLoop(adj, r.stack, r.in_degree, Append(order, idx))

topo_sort(fsteps) ==
    LET n == Len(fsteps)
        unknown == \E i \in 1..n : \E k \in 1..Len(fsteps[i].depends_on) :
                        NameToIdx(fsteps, fsteps[i].depends_on[k]) = 0
        adj == [j \in 1..n |-> AdjOf(fsteps, j, 1, 1)]
        in_degree == [i \in 1..n |-> Len(fsteps[i].depends_on)]
        stack == SelectSeq([i \in 1..n |-> i], LAMBDA i : in_degree[i] = 0)
        order == KahnLoop(adj, stack, in_degree, <<>>)
    IN  IF unknown THEN [ok |-> FALSE, err |-> "unknown dependency", order |-> <<>>]
        ELSE IF Len(order) # n
                THEN [ok |-> FALSE, err |-> "cycle detected", order |-> <<>>]
                ELSE [ok |-> TRUE, err |-> None, order |-> order]

\* def.topo_sort() is called on the formula read.
FormulaTopoSort ==
    /\ formula_pc = "build"
    /\ topo_result' = <<topo_sort(formula_steps)>>
    /\ formula_pc' = "sorted"
    /\ UNCHANGED formula_steps
    /\ UNCHANGED <<workflow_vars, formula_others>>

FormulaNext ==
    \/ FormulaAddStep
    \/ FormulaTopoSort

\* =================================================================
\* Formula workflow
\* =================================================================

\* The formulas a run may be started with: none to three steps, declared in
\* or against the order of their dependencies, one with an unknown dependency
\* and one with a cycle.
FormulaDefs ==
    {<<>>,
     <<[name |-> "a", depends_on |-> <<>>]>>,
     <<[name |-> "a", depends_on |-> <<>>], [name |-> "b", depends_on |-> <<"a">>]>>,
     <<[name |-> "b", depends_on |-> <<"a">>], [name |-> "a", depends_on |-> <<>>]>>,
     <<[name |-> "a", depends_on |-> <<>>], [name |-> "b", depends_on |-> <<"a">>],
       [name |-> "c", depends_on |-> <<"a", "b">>]>>,
     <<[name |-> "c", depends_on |-> <<"b">>], [name |-> "b", depends_on |-> <<"a">>],
       [name |-> "a", depends_on |-> <<>>]>>,
     <<[name |-> "a", depends_on |-> <<>>], [name |-> "b", depends_on |-> <<>>],
       [name |-> "c", depends_on |-> <<>>]>>,
     <<[name |-> "a", depends_on |-> <<"c">>]>>,
     <<[name |-> "a", depends_on |-> <<"b">>], [name |-> "b", depends_on |-> <<"a">>]>>}

FormulaWfInit ==
    /\ fwf_pc = "start"
    /\ fwf_def = <<>>
    /\ sorted_steps = <<>>
    /\ steps_completed = 0
    /\ fwf_runs = <<>>
    /\ fwf_result = <<>>

\* FormulaDef::from_toml and def.topo_sort()?: an Err of topo_sort fails the
\* workflow before any step runs.
FormulaWfStart ==
    /\ fwf_pc = "start"
    /\ \E def \in FormulaDefs :
        LET sorted == topo_sort(def)
        IN  /\ fwf_def' = def
            /\ IF sorted.ok
                  THEN /\ sorted_steps' = [i \in 1..Len(def) |-> def[sorted.order[i]].name]
                       /\ fwf_pc' = "steps"
                       /\ UNCHANGED fwf_result
                  ELSE /\ fwf_pc' = "failed"
                       /\ fwf_result' = <<[err |-> sorted.err]>>
                       /\ UNCHANGED sorted_steps
    /\ UNCHANGED <<steps_completed, fwf_runs>>
    /\ UNCHANGED <<workflow_vars, fwf_others>>

FormulaResult(failed) ==
    [steps_completed |-> steps_completed, steps_total |-> Len(fwf_def),
     failed_step |-> failed]

\* What `match result.status` takes for a failure: every resolution of the
\* activity other than Completed.
StepFailed(resolution) == resolution # "ok"

\* One turn of `for step in &sorted_steps`: run_plugin is awaited for the
\* step; after the last step the result is returned.
FormulaWfStep ==
    /\ fwf_pc = "steps"
    /\ IF Len(fwf_runs) = Len(sorted_steps)
          THEN /\ fwf_result' = <<FormulaResult(None)>>
               /\ fwf_pc' = "returned"
               /\ UNCHANGED <<steps_completed, fwf_runs>>
          ELSE LET step == sorted_steps[Len(fwf_runs) + 1]
               IN  \E o \in TestOutcomes :
                    /\ fwf_runs' = Append(fwf_runs, [name |-> step, outcome |-> o])
                    /\ IF StepFailed(run_plugin(o))
                          THEN /\ fwf_result' = <<FormulaResult(step)>>
                               /\ fwf_pc' = "returned"
                               /\ UNCHANGED steps_completed
                          ELSE /\ steps_completed' = steps_completed + 1
                               /\ UNCHANGED <<fwf_pc, fwf_result>>
    /\ UNCHANGED <<fwf_def, sorted_steps>>
    /\ UNCHANGED <<workflow_vars, fwf_others>>

FormulaWfNext ==
    \/ FormulaWfStart
    \/ FormulaWfStep

\* =================================================================
\* RigsConfig (gtr-core/src/config.rs)
\* =================================================================

\* add and remove calls on one RigsConfig.
MaxCfgOps == 4

RigNames == {"rig-a", "rig-b"}

GitUrls == {"url-1", "url-2"}

\* load_from of a path that does not exist: RigsConfig { rigs: vec![] }.
RigsConfigInit ==
    /\ cfg_rigs = <<>>
    /\ cfg_ops = 0
    /\ cfg_last = <<>>

\* An add that never finds the name.
NameNeverTaken(rigs, name) == FALSE

\* if self.rigs.iter().any(|r| r.name == name) { return; }
NameTaken(rigs, name) == \E i \in 1..Len(rigs) : rigs[i].name = name

\* RigsConfig::add; path is rig_dir(name).
add(rigs, name, url) ==
    IF NameTaken(rigs, name)
       THEN rigs
       ELSE Append(rigs, [name |-> name, path |-> <<"rigs", name>>, git_url |-> url])

\* RigsConfig::remove: self.rigs.retain(|r| r.name != name)
remove(rigs, name) == SelectSeq(rigs, LAMBDA r : r.name # name)

RigsAdd ==
    /\ cfg_ops < MaxCfgOps
    /\ \E name \in RigNames, url \in GitUrls :
        /\ cfg_rigs' = add(cfg_rigs, name, url)
        /\ cfg_last' = <<[op |-> "add", name |-> name, before |-> cfg_rigs]>>
    /\ cfg_ops' = cfg_ops + 1
    /\ UNCHANGED <<workflow_vars, cfg_others>>

RigsRemove ==
    /\ cfg_ops < MaxCfgOps
    /\ \E name \in RigNames :
        /\ cfg_rigs' = remove(cfg_rigs, name)
        /\ cfg_last' = <<[op |-> "remove", name |-> name, before |-> cfg_rigs]>>
    /\ cfg_ops' = cfg_ops + 1
    /\ UNCHANGED <<workflow_vars, cfg_others>>

RigsConfigNext ==
    \/ RigsAdd
    \/ RigsRemove

\* =================================================================
\* Supervisor activities for one agent id, step by step
\* =================================================================

\* Activities started for the agent id.
MaxActivities == 3

\* Worker slots: two activities may run at the same time.
Slots == {1, 2}

IdleTask == [kind |-> None, id |-> 0, pc |-> "idle", pane_pid |-> 0, ret |-> None]

SupervisorInit ==
    /\ sup_session = 0
    /\ sup_dir = FALSE
    /\ sup_env = 0
    /\ sup_pidfile = 0
    /\ sup_task = [s \in Slots |-> IdleTask]
    /\ sup_started = 0

\* The worker starts an activity in a free slot.
SupStart ==
    \E s \in Slots, kind \in {"spawn_agent", "kill_agent"} :
        /\ sup_task[s].pc \in {"idle", "done"}
        /\ sup_started < MaxActivities
        /\ sup_started' = sup_started + 1
        /\ sup_task' = [sup_task EXCEPT ![s] =
                            [kind |-> kind, id |-> sup_started + 1,
                             pc |-> IF kind = "spawn_agent" THEN "is_alive" ELSE "read_pid",
                             pane_pid |-> 0, ret |-> None]]
        /\ UNCHANGED <<sup_session, sup_dir, sup_env, sup_pidfile>>
        /\ UNCHANGED <<workflow_vars, sup_others>>

SupGoto(s, pc) == sup_task' = [sup_task EXCEPT ![s].pc = pc]

SupReturn(s, ret) == sup_task' = [sup_task EXCEPT ![s].pc = "done", ![s].ret = ret]

SupAt(s, kind, pc) == sup_task[s].kind = kind /\ sup_task[s].pc = pc

\* spawn_agent: if pty::is_alive(..) { return Err(NonRetryable("already running")) }
SpawnIsAlive(s) ==
    /\ SupAt(s, "spawn_agent", "is_alive")
    /\ IF sup_session # 0
          THEN SupReturn(s, "already_running")
          ELSE SupGoto(s, "cleanup")
    /\ UNCHANGED <<sup_session, sup_dir, sup_env, sup_pidfile, sup_started>>

\* spawn_agent: pty::cleanup(&input.agent_id).ok()
SpawnCleanup(s) ==
    /\ SupAt(s, "spawn_agent", "cleanup")
    /\ sup_dir' = FALSE
    /\ sup_env' = 0
    /\ sup_pidfile' = 0
    /\ SupGoto(s, "create_dir")
    /\ UNCHANGED <<sup_session, sup_started>>

\* pty::spawn: create_dir_all(&dir)
SpawnCreateDir(s) ==
    /\ SupAt(s, "spawn_agent", "create_dir")
    /\ sup_dir' = TRUE
    /\ SupGoto(s, "write_env")
    /\ UNCHANGED <<sup_session, sup_env, sup_pidfile, sup_started>>

\* pty::spawn: fs::write(dir.join("env.json"), ..)?
SpawnWriteEnv(s) ==
    /\ SupAt(s, "spawn_agent", "write_env")
    /\ IF sup_dir
          THEN /\ sup_env' = sup_task[s].id
               /\ SupGoto(s, "new_session")
          ELSE /\ SupReturn(s, "spawn_failed")
               /\ UNCHANGED sup_env
    /\ UNCHANGED <<sup_session, sup_dir, sup_pidfile, sup_started>>

\* pty::spawn: tmux new-session -d -s <session>; tmux refuses a session name
\* that exists.
SpawnNewSession(s) ==
    /\ SupAt(s, "spawn_agent", "new_session")
    /\ IF sup_session # 0
          THEN /\ SupReturn(s, "spawn_failed")
               /\ UNCHANGED sup_session
          ELSE /\ sup_session' = sup_task[s].id
               /\ SupGoto(s, "list_panes")
    /\ UNCHANGED <<sup_dir, sup_env, sup_pidfile, sup_started>>

\* pty::spawn: tmux list-panes -t <session>; no output parses as no PID.
SpawnListPanes(s) ==
    /\ SupAt(s, "spawn_agent", "list_panes")
    /\ IF sup_session = 0
          THEN SupReturn(s, "spawn_failed")
          ELSE sup_task' = [sup_task EXCEPT ![s].pc = "write_pid",
                                            ![s].pane_pid = sup_session]
    /\ UNCHANGED <<sup_session, sup_dir, sup_env, sup_pidfile, sup_started>>

\* pty::spawn: fs::write(dir.join("pid"), ..)?; then Ok(SpawnAgentOutput).
SpawnWritePid(s) ==
    /\ SupAt(s, "spawn_agent", "write_pid")
    /\ IF sup_dir
          THEN /\ sup_pidfile' = sup_task[s].pane_pid
               /\ SupReturn(s, "ok")
          ELSE /\ SupReturn(s, "spawn_failed")
               /\ UNCHANGED sup_pidfile
    /\ UNCHANGED <<sup_session, sup_dir, sup_env, sup_started>>

\* kill_agent: let pane_pid = read_pid(agent_id), from tmux or from the pid
\* file.
KillReadPid(s) ==
    /\ SupAt(s, "kill_agent", "read_pid")
    /\ sup_task' = [sup_task EXCEPT ![s].pc = "kill_session",
                                    ![s].pane_pid = IF sup_session # 0 THEN sup_session
                                                    ELSE sup_pidfile]
    /\ UNCHANGED <<sup_session, sup_dir, sup_env, sup_pidfile, sup_started>>

\* kill_agent: tmux kill-session -t <session>
KillSession(s) ==
    /\ SupAt(s, "kill_agent", "kill_session")
    /\ sup_session' = 0
    /\ sup_task' = [sup_task EXCEPT ![s].pc = "killpg",
                                    ![s].ret = IF sup_session # 0 \/ sup_task[s].pane_pid # 0
                                                  THEN "killed" ELSE "nothing_to_kill"]
    /\ UNCHANGED <<sup_dir, sup_env, sup_pidfile, sup_started>>

\* kill_agent: killpg of the process group of pane_pid; the pane's command of
\* a live session is in the group of its own PID.
KillProcessGroup(s) ==
    /\ SupAt(s, "kill_agent", "killpg")
    /\ sup_session' = IF sup_session # 0 /\ sup_session = sup_task[s].pane_pid
                         THEN 0 ELSE sup_session
    /\ SupGoto(s, "cleanup")
    /\ UNCHANGED <<sup_dir, sup_env, sup_pidfile, sup_started>>

\* kill_agent: cleanup(agent_id)?; Ok(session_existed || pane_pid.is_some())
KillCleanup(s) ==
    /\ SupAt(s, "kill_agent", "cleanup")
    /\ sup_dir' = FALSE
    /\ sup_env' = 0
    /\ sup_pidfile' = 0
    /\ SupGoto(s, "done")
    /\ UNCHANGED <<sup_session, sup_started>>

\* One step of the spawn_agent activity in slot s.
SpawnAgentStep(s) ==
    /\ \/ SpawnIsAlive(s)
       \/ SpawnCleanup(s)
       \/ SpawnCreateDir(s)
       \/ SpawnWriteEnv(s)
       \/ SpawnNewSession(s)
       \/ SpawnListPanes(s)
       \/ SpawnWritePid(s)
    /\ UNCHANGED <<workflow_vars, sup_others>>

\* One step of the kill_agent activity in slot s.
KillAgentStep(s) ==
    /\ \/ KillReadPid(s)
       \/ KillSession(s)
       \/ KillProcessGroup(s)
       \/ KillCleanup(s)
    /\ UNCHANGED <<workflow_vars, sup_others>>

SupSpawnAgent == \E s \in Slots : SpawnAgentStep(s)

SupKillAgent == \E s \in Slots : KillAgentStep(s)

SupervisorNext ==
    \/ SupStart
    \/ SupSpawnAgent
    \/ SupKillAgent

\* =================================================================
\* done command, run inside a polecat's session
\* =================================================================

DoneInit ==
    /\ done_cmd_pc = "idle"
    /\ done_in_group = FALSE
    /\ done_signalled = FALSE
    /\ enqueue_sent = <<>>

\* pty::kill_agent has ended the session and the process group of the pane's
\* command, and the command's process with them when it is in that group.
DoneProcessKilled == done_in_group /\ agent_spawned /\ ~agent_alive

DoneKeepsPolecat ==
    UNCHANGED <<polecat_pc, polecat_status, exit_reason, agent_summary, agent_spawned,
                agent_alive, captured_output, kill_ch, stuck_ch, polecat_sent,
                polecat_calls, polecat_select, reports_sent, mayor_inbox,
                polecat_result>>

\* The agent runs `$RGT_BIN done <id> --branch .. --summary ..` as the prompt
\* tells it to; whether the process is in the group of the pane's command
\* depends on how the runtime starts its commands.  client::connect()? may
\* fail, which ends the command.
DoneRun ==
    /\ done_cmd_pc = "idle"
    /\ agent_alive
    /\ \E in_group \in BOOLEAN, connected \in BOOLEAN :
        /\ done_in_group' = in_group
        /\ done_cmd_pc' = IF connected THEN "signal_polecat" ELSE "exited"
    /\ UNCHANGED <<done_signalled, enqueue_sent, done_ch>>
    /\ DoneKeepsPolecat
    /\ UNCHANGED <<refinery_vars, wi_vars, convoy_vars, molecule_vars, rig_vars, done_others>>

\* GTR_AGENT is set: polecat_done is sent to the workflow of that id; `.ok()`
\* drops an error.
DoneSignalPolecat ==
    /\ done_cmd_pc = "signal_polecat"
    /\ ~DoneProcessKilled
    /\ \E s \in DonePayloads \ {"bad"}, delivered \in BOOLEAN :
        done_ch' = IF delivered /\ polecat_pc # "returned"
                      THEN Append(done_ch, s) ELSE done_ch
    /\ done_signalled' = TRUE
    /\ done_cmd_pc' = "enqueue"
    /\ UNCHANGED <<done_in_group, enqueue_sent>>
    /\ DoneKeepsPolecat
    /\ UNCHANGED <<refinery_vars, wi_vars, convoy_vars, molecule_vars, rig_vars, done_others>>

\* refinery_enqueue is sent to "<rig>-refinery"; an error is printed and the
\* command ends with Ok all the same.
DoneEnqueue ==
    /\ done_cmd_pc = "enqueue"
    /\ ~DoneProcessKilled
    /\ \E ok \in BOOLEAN :
        enqueue_sent' = IF ok THEN Append(enqueue_sent, "rig-refinery") ELSE enqueue_sent
    /\ done_cmd_pc' = "exited"
    /\ UNCHANGED <<done_in_group, done_signalled, done_ch>>
    /\ DoneKeepsPolecat
    /\ UNCHANGED <<refinery_vars, wi_vars, convoy_vars, molecule_vars, rig_vars, done_others>>

\* The command together with the polecat workflow whose agent runs it.
DoneNext ==
    \/ DoneRun
    \/ DoneSignalPolecat
    \/ DoneEnqueue
    \/ PolecatWorktree
    \/ PolecatSpawn
    \/ PolecatDone
    \/ PolecatTimer
    \/ PolecatHeartbeat
    \/ PolecatCapture
    \/ PolecatKillAgent
    \/ PolecatReport
    \/ PolecatReturn

\* =================================================================
\* Merge queue commands with the refinery
\* =================================================================

MqInit == mq_waiting = {}

\* An entry of the id waits: its refinery_enqueue is not handled yet or it is
\* queued; and none of the id is being validated or was processed.
MqWaiting(id) ==
    /\ \/ \E i \in 1..Len(enqueue_ch) :
            enqueue_ch[i] # BadPayload /\ enqueue_ch[i].work_item_id = id
       \/ \E i \in 1..Len(queue) :
            queue[i].work_item_id = id /\ queue[i].status = "queued"
    /\ \A i \in 1..Len(queue) :
            queue[i].work_item_id = id => queue[i].status = "queued"
    /\ \A i \in 1..Len(processed) : processed[i].work_item_id # id

\* done sends refinery_enqueue{work_item_id, branch, priority}.
MqEnqueue ==
    /\ ref_pc # "stopped"
    /\ ref_sent < MaxRefSignals
    /\ \E p \in EnqueuePayloads \ {BadPayload} :
        /\ enqueue_ch' = Append(enqueue_ch, p)
        /\ mq_waiting' = mq_waiting \ {p.work_item_id}
    /\ ref_sent' = ref_sent + 1
    /\ UNCHANGED <<ref_pc, queue, processed, ref_idx, ref_entry, dequeue_ch,
                   stop_ch, ref_history, ref_result>>
    /\ UNCHANGED <<polecat_vars, wi_vars, convoy_vars, molecule_vars, rig_vars, mq_others>>

\* handle_remove sends refinery_dequeue{work_item_id}.
MqRemove ==
    /\ ref_pc # "stopped"
    /\ ref_sent < MaxRefSignals
    /\ \E id \in WorkItemIds :
        /\ dequeue_ch' = Append(dequeue_ch, id)
        /\ mq_waiting' = IF MqWaiting(id) THEN mq_waiting \cup {id} ELSE mq_waiting
    /\ ref_sent' = ref_sent + 1
    /\ UNCHANGED <<ref_pc, queue, processed, ref_idx, ref_entry, enqueue_ch,
                   stop_ch, ref_history, ref_result>>
    /\ UNCHANGED <<polecat_vars, wi_vars, convoy_vars, molecule_vars, rig_vars, mq_others>>

\* The commands together with the refinery workflow they signal.
MqNext ==
    \/ MqEnqueue
    \/ MqRemove
    \/ RefEnqueue
    \/ RefDequeue
    \/ RefCheckout
    \/ RefRebase
    \/ RefTests
    \/ RefCheckoutMain
    \/ RefMerge
    \/ RefPush

\* =================================================================
\* Specifications
\* =================================================================

Init ==
    /\ PolecatInit
    /\ RefineryInit
    /\ WorkItemInit
    /\ ConvoyInit
    /\ MoleculeInit
    /\ RigInit
    /\ PtyInit
    /\ GateInit
    /\ MayorInit
    /\ WitnessInit
    /\ BootInit
    /\ FormulaInit
    /\ FormulaWfInit
    /\ RigsConfigInit
    /\ SupervisorInit
    /\ DoneInit
    /\ MqInit

\* One specification per workflow: the workflows are separate runs that share
\* no state.
SpecPolecat == Init /\ [][PolecatNext]_vars

SpecRefinery == Init /\ [][RefineryNext]_vars

SpecRefineryLive == Init /\ [][RefineryLiveNext]_vars /\ RefineryActivitiesReturn

SpecWorkItem == Init /\ [][WorkItemNext]_vars

SpecConvoy == Init /\ [][ConvoyNext]_vars

SpecMolecule == Init /\ [][MoleculeNext]_vars

SpecRig == Init /\ [][RigNext]_vars

SpecPty == Init /\ [][PtyNext]_vars

SpecGate == Init /\ [][GateNext]_vars

SpecMayor == Init /\ [][MayorNext]_vars

SpecWitness == Init /\ [][WitnessNext]_vars

SpecBoot == Init /\ [][BootNext]_vars

SpecFormula == Init /\ [][FormulaNext]_vars

SpecFormulaWf == Init /\ [][FormulaWfNext]_vars

SpecRigsConfig == Init /\ [][RigsConfigNext]_vars

SpecSupervisor == Init /\ [][SupervisorNext]_vars

SpecDone == Init /\ [][DoneNext]_vars

SpecMq == Init /\ [][MqNext]_vars

\* =================================================================
\* Properties: polecat
\* =================================================================

PolecatTail == polecat_pc \in {"return", "returned"}

\* C1: on every exit path exactly one polecat_report is handed to
\* signal_workflow for workflow "mayor" before the polecat returns, none
\* before the tail is reached, and it carries the final status and exit_reason
\* (the status the workflow returns); whether the mayor receives it has no
\* influence on the return; and no run stops by a panic between the end of
\* the loop and the report.
ReportExactlyOnce ==
    /\ polecat_pc # "panicked"
    /\ ~PolecatTail => reports_sent = <<>>
    /\ PolecatTail =>
        /\ Len(reports_sent) = 1
        /\ reports_sent[1].to = "mayor"
        /\ reports_sent[1].status = polecat_status
        /\ reports_sent[1].exit_reason = exit_reason
        /\ exit_reason # "unknown"
    /\ polecat_pc = "returned" => polecat_result[1].status = reports_sent[1].status
    /\ Len(mayor_inbox) <= Len(reports_sent)

InFlight == ref_pc \in {"checkout", "rebase", "tests", "checkout_main", "merge", "push"}

Validating == {i \in 1..Len(queue) : queue[i].status = "validating"}

Called(act) == \E i \in 1..Len(ref_history.calls) : ref_history.calls[i][1] = act

OutcomeOf(act) ==
    LET i == CHOOSE k \in 1..Len(ref_history.calls) : ref_history.calls[k][1] = act
    IN  ref_history.calls[i][2]

TimesCalled(act) ==
    Cardinality({i \in 1..Len(ref_history.calls) : ref_history.calls[i][1] = act})

\* The entry started last has left the pipeline and no other has started.
Settled == ref_pc \in {"select", "stopped"} /\ ref_history.work_item_id # None

LastProcessed == processed[Len(processed)]

\* A step of the pipeline handles no signal and stays with the entry in
\* flight until that entry is pushed to processed.
PipelineStep ==
    InFlight =>
        /\ Len(enqueue_ch') >= Len(enqueue_ch)
        /\ Len(dequeue_ch') >= Len(dequeue_ch)
        /\ stop_ch' >= stop_ch
        /\ ref_result' = ref_result
        /\ \/ /\ processed' = processed
              /\ ref_history'.work_item_id = ref_history.work_item_id
              /\ Len(ref_history'.calls) >= Len(ref_history.calls)
              /\ InFlight'
           \/ /\ Len(processed') = Len(processed) + 1
              /\ processed'[Len(processed')].work_item_id = ref_history.work_item_id
              /\ Len(queue') = Len(queue) - (IF ref_entry = <<>> THEN 1 ELSE 0)

\* C3: the refinery processes one entry at a time: at most one entry is
\* validating, exactly when a pipeline is running, and from the first to the
\* last activity of an entry no signal is handled and no other entry is
\* started, so a signal that arrives mid-pipeline waits in its channel.
SerialProcessing ==
    /\ [](/\ Cardinality(Validating) + Len(ref_entry) <= 1
          /\ InFlight <=> (Cardinality(Validating) = 1 \/ ref_entry # <<>>)
          /\ ref_idx # 0 => Validating = {ref_idx})
    /\ [][PipelineStep]_vars

\* An enqueue arrived while the merge of another entry was awaited.
SerialProcessingWitness ==
    /\ ref_pc = "merge"
    /\ Len(enqueue_ch) = 2
    /\ Cardinality(Validating) = 1
    /\ Len(processed) = 0

\* A step that starts the pipeline of an entry.
StartsEntry ==
    /\ ref_pc' = "checkout"
    /\ ref_pc # "checkout" \/ Len(processed') > Len(processed)

\* C4: an entry enqueued later with a smaller priority number overtakes every
\* earlier entry whose processing has not yet started: no entry starts while an
\* enqueue with a smaller priority number has already been delivered (enqueue
\* (A, 2) then (B, 0) while idle: B is processed first).
LateHighPriorityOvertakes ==
    [][StartsEntry =>
        \A i \in 1..Len(enqueue_ch') :
            enqueue_ch'[i] # BadPayload =>
                enqueue_ch'[i].priority >= queue'[ref_idx'].priority]_vars

\* C5: the entries of processed are in non-decreasing order of priority.
ProcessedByPriority ==
    \A i, j \in 1..Len(processed) :
        i < j => processed[i].priority <= processed[j].priority

\* C6: no work_item_id is in both queue and processed.
NoItemQueuedAndProcessed ==
    \A i \in 1..Len(queue) : \A j \in 1..Len(processed) :
        queue[i].work_item_id # processed[j].work_item_id

\* C7: when the test command of an entry fails (non-zero exit, or it cannot be
\* run), neither merge nor push is invoked for the entry and it ends in
\* processed as tests_failed.
FailedTestsNeverMerged ==
    (Called("tests") /\ OutcomeOf("tests") # "exit_zero") =>
        /\ ref_pc # "merge" /\ ~Called("merge")
        /\ ref_pc # "push" /\ ~Called("push")
        /\ Settled => LastProcessed.status = "tests_failed"

\* C8: when step 4 fails, in the checkout of main or in the merge, the entry
\* ends merge_failed and nothing is pushed; no merge is made after a failed
\* checkout of main.
FailedStep4NeverPushed ==
    /\ (Called("checkout_main") /\ OutcomeOf("checkout_main") = "fail") =>
        /\ ~Called("merge")
        /\ ~Called("push")
        /\ Settled => LastProcessed.status = "merge_failed"
    /\ (Called("merge") /\ OutcomeOf("merge") = "fail") =>
        /\ ~Called("push")
        /\ Settled => LastProcessed.status = "merge_failed"

\* C9: push is invoked at most once per entry and only after the entry's
\* checkout, rebase, tests and merge have all succeeded; the entry ends merged
\* exactly when the push succeeded and merged_push_failed exactly when the
\* merge succeeded and the push failed.
PushOnlyAfterSuccess ==
    /\ TimesCalled("push") <= 1
    /\ (ref_pc = "push" \/ Called("push")) =>
        /\ Called("checkout") /\ OutcomeOf("checkout") = "ok"
        /\ Called("rebase") /\ OutcomeOf("rebase") = "ok"
        /\ Called("tests") /\ OutcomeOf("tests") = "exit_zero"
        /\ Called("merge") /\ OutcomeOf("merge") = "ok"
    /\ Settled =>
        /\ LastProcessed.status = "merged" <=>
              (Called("push") /\ OutcomeOf("push") = "ok")
        /\ LastProcessed.status = "merged_push_failed" <=>
              (Called("merge") /\ OutcomeOf("merge") = "ok"
               /\ Called("push") /\ OutcomeOf("push") = "fail")

\* =================================================================
\* Properties: work item
\* =================================================================

Open == {"pending", "assigned", "in_progress"}

\* C10 as stated: in every state, the returned one included, assigned_to is
\* Some exactly when status is assigned or in_progress.
AssignedIffActive ==
    /\ (assigned_to # None) <=> (wi_status \in Active)
    /\ wi_result # <<>> =>
        ((wi_result[1].assigned_to # None) <=> (wi_result[1].status \in Active))

\* C10 amended: while the work item is open (pending, assigned, in_progress)
\* assigned_to is Some exactly when status is assigned or in_progress; the
\* terminal states keep the assignee they were reached with, so done always has
\* one, and the returned state is the terminal state.
AssignedIffActiveWhileOpen ==
    /\ wi_status \in Open => ((assigned_to # None) <=> (wi_status \in Active))
    /\ wi_status = "done" => assigned_to # None
    /\ wi_pc = "returned" <=> wi_status \notin Open
    /\ wi_pc = "returned" =>
        wi_result = <<[status |-> wi_status, assigned_to |-> assigned_to]>>

\* A work item that was assigned (its staleness timer has run) and released.
AssignedIffActiveWitness ==
    /\ wi_status = "pending"
    /\ assigned_to = None
    /\ wi_stale > 0

\* C11: a work item never stays assigned or in_progress for more than
\* STALE_TIMEOUT hours without a heartbeat and without the staleness
\* escalation: only a heartbeat restarts the timer, so when the fourth hour is
\* over the item is escalated (wi_quiet counts the hours since the item became
\* assigned, its last heartbeat or its last staleness escalation).
StaleEscalatesAfterFourHours ==
    wi_status \in Active => wi_quiet <= STALE_TIMEOUT

\* The signals of the sequence assign{a}, start, complete, as delivered.
AssignStartComplete(a) ==
    <<<<"assign", a>>, <<"start", "sig">>, <<"complete", "sig">>>>

IsPrefix(s, t) == Len(s) <= Len(t) /\ s = SubSeq(t, 1, Len(s))

\* How many of the delivered signals of the sequence have been handled.
WiHandled ==
    Len(wi_log) - (Len(wi_ch["assign"]) + Len(wi_ch["start"]) + Len(wi_ch["complete"]))

\* C12: when the signals a work item receives are assign{agent}, start and
\* complete, in that order, each handled signal moves the status one step along
\* pending -> assigned -> in_progress -> done, assigned_to is the agent from the
\* assign on, and with the complete the workflow returns the state with status
\* done and assigned_to the agent (id and title are the inputs, never written).
AssignStartCompleteEndsDone ==
    \A a \in Agents :
        IsPrefix(wi_log, AssignStartComplete(a)) =>
            /\ wi_status = <<"pending", "assigned", "in_progress", "done">>[WiHandled + 1]
            /\ assigned_to = IF WiHandled = 0 THEN None ELSE a
            /\ wi_pc = "returned" <=> WiHandled = 3
            /\ wi_pc = "returned" =>
                wi_result = <<[status |-> "done", assigned_to |-> a]>>

\* assign{mayor}, start, complete were delivered and the workflow has returned.
AssignStartCompleteWitness ==
    /\ wi_log = AssignStartComplete("mayor")
    /\ wi_pc = "returned"
    /\ wi_result = <<[status |-> "done", assigned_to |-> "mayor"]>>

\* The select! is about to run a branch whose signal is invalid in the current
\* state.
WiInvalidBranch ==
    /\ wi_pc = "loop"
    /\ \/ WiBranch = "assign" /\ wi_status # "pending"
       \/ WiBranch = "start" /\ wi_status # "assigned"
       \/ WiBranch \in {"complete", "release"} /\ wi_status = "pending"
       \/ WiBranch = "heartbeat"

\* The step takes the signal of the branch from its channel.
WiHandles == Len(wi_ch'[WiBranch]) < Len(wi_ch[WiBranch])

\* C13: handling a signal that is invalid in the current state (assign when
\* not pending, start when not assigned, complete or release when pending,
\* heartbeat always) leaves status, assigned_to and escalation_level as they
\* were, and the workflow goes on waiting: it neither returns nor fails.
InvalidSignalsIgnored ==
    [][(WiInvalidBranch /\ WiHandles) =>
          /\ UNCHANGED <<wi_status, assigned_to, escalation_level, notifications>>
          /\ wi_pc' = "loop"
          /\ wi_result' = <<>>]_vars

\* A second assign, to another agent, was handled while the item was assigned.
InvalidSignalsIgnoredWitness ==
    /\ wi_log = <<<<"assign", "mayor">>, <<"assign", "polecat-1">>>>
    /\ \A n \in WiSignalNames : wi_ch[n] = <<>>
    /\ wi_status = "assigned"
    /\ assigned_to = "mayor"
    /\ wi_pc = "loop"

\* =================================================================
\* Properties: convoy
\* =================================================================

\* The convoy's items, as a set.
ConvoyItems == {work_items[i] : i \in 1..Len(work_items)}

\* C14: every id in completed is one of the convoy's items, whatever
\* add_work_item and item_done signals were handled (an item_done for an id
\* that was never added included).
CompletedSubsetOfItems == completed \subseteq ConvoyItems

\* The step handles an item_done signal.
ConvoyHandlesItemDone ==
    /\ convoy_pc = "loop"
    /\ Len(item_done_ch') < Len(item_done_ch)

\* C15: handling an item_done closes (and ends) the convoy exactly when the
\* item set is then non-empty and equal to the completed set: never while an
\* added item is not reported done, and always once every added item is, also
\* when an id was added more than once.
ClosesExactlyWhenAllDone ==
    [][ConvoyHandlesItemDone =>
          ((convoy_status' = "closed" /\ convoy_pc' = "returned")
              <=> (ConvoyItems' # {} /\ ConvoyItems' = completed'))]_vars

\* =================================================================
\* Properties: molecule
\* =================================================================

InProgressSteps == {i \in 1..Len(steps) : steps[i].status = "in_progress"}

\* C16: while the molecule is running at most one step is in_progress,
\* whatever mol_step_done, mol_step_fail, mol_pause and mol_resume signals were
\* handled, also a mol_step_done whose step_ref is not the current step or is
\* no step at all.
AtMostOneInProgress ==
    mol_status = "running" => Cardinality(InProgressSteps) <= 1

\* C17: while the molecule is running and waits with steps left to do,
\* exactly one step is in_progress, current_step names it, every step before
\* it is done and every step after it is pending: each mol_step_done has
\* marked the in_progress step done and promoted the first pending one, so
\* the steps start in list order, each after all earlier ones are done.
OneStepAtATimeInOrder ==
    (mol_pc = "loop" /\ mol_status = "running") =>
        \E k \in 1..Len(steps) :
            /\ InProgressSteps = {k}
            /\ current_step = steps[k].ref_id
            /\ \A j \in 1..(k - 1) : steps[j].status = "done"
            /\ \A j \in (k + 1)..Len(steps) : steps[j].status = "pending"

\* =================================================================
\* Properties: rig
\* =================================================================

\* C18: whenever the rig waits for its next signal, has_witness is true
\* exactly when the agents list holds an agent with role witness, whatever
\* rig_boot, rig_register_agent, rig_unregister_agent and rig_stop signals were
\* handled.
HasWitnessMatchesAgents ==
    rig_pc = "loop" =>
        (has_witness <=> \E i \in 1..Len(rig_agents) : rig_agents[i].role = "witness")

\* The step takes a signal from the channel of the name.
RigHandles(name) == Len(rig_ch'[name]) < Len(rig_ch[name])

\* C19: handling rig_stop, in whatever status, ends the run by
\* continue-as-new and leaves name, git_url and the two session ids as they
\* were; the run that starts from it is dormant, has neither witness nor
\* refinery, has empty agents, polecats and crew lists, and the same name,
\* git_url, witness_session_id and refinery_session_id.
StopContinuesAsDormant ==
    [][/\ RigHandles("stop") =>
            /\ rig_pc' = "continued"
            /\ rig_args' # <<>>
            /\ UNCHANGED <<rig_name, git_url, witness_session_id, refinery_session_id>>
       /\ (rig_pc = "continued" /\ rig_pc' # "continued") =>
            /\ rig_status' = "dormant"
            /\ ~has_witness'
            /\ ~has_refinery'
            /\ rig_agents' = <<>>
            /\ polecats' = <<>>
            /\ crew' = <<>>
            /\ UNCHANGED <<rig_name, git_url, witness_session_id, refinery_session_id>>]_vars

\* A rig that was booted, found the session id of its witness and was
\* stopped has started again.
StopContinuesAsDormantWitness ==
    /\ rig_pc = "loop"
    /\ from_continue
    /\ rig_last = "stop"
    /\ rig_status = "dormant"
    /\ rig_name = "rig1"
    /\ witness_session_id = "sess-1"

RigTakes(name) == rig_pc = "loop" /\ RigBranch = name /\ RigHandles(name)

\* The transition table of the rig status, for the signals that may change it.
RigTransition(status, name) ==
    CASE name = "park" /\ status = "operational" -> "parked"
      [] name = "unpark" /\ status = "parked" -> "operational"
      [] name = "dock" /\ status # "dormant" -> "docked"
      [] name = "undock" /\ status = "docked" -> "operational"
      [] name = "boot" /\ status \in {"operational", "dormant"} -> "operational"
      [] name = "stop" -> "dormant"
      [] OTHER -> status

\* C21: the rig status changes only as the transition table allows: handling
\* park, unpark, dock, undock or boot gives the status of the table (park only
\* from operational, unpark only from parked, dock from all but dormant, undock
\* only from docked, boot only from operational or dormant), every other
\* (status, signal) pair and every step that handles no signal leaves it as it
\* is, and a dormant rig leaves dormant only by handling rig_boot.
StatusFollowsTable ==
    [][/\ \A name \in RigSignalNames :
            RigTakes(name) => rig_status' = RigTransition(rig_status, name)
       /\ (\A name \in RigSignalNames : ~RigTakes(name)) => rig_status' = rig_status
       /\ (rig_status = "dormant" /\ rig_status' # "dormant") => RigTakes("boot")]_vars

\* A stopped rig was sent rig_dock and is still dormant.
StatusFollowsTableWitness ==
    /\ rig_pc = "loop"
    /\ from_continue
    /\ rig_last = "dock"
    /\ rig_status = "dormant"

\* =================================================================
\* Properties: polecat heartbeat and steps
\* =================================================================

\* C22: when the agent's session is no longer alive at the return of the
\* polecat's 60-second heartbeat check, the polecat sets status = dead and
\* exit_reason = agent_died and leaves the heartbeat loop for the capture,
\* kill and report steps; it does not go back to the loop to wait for a signal.
DeadAgentLeavesLoop ==
    [][(polecat_pc = "heartbeat" /\ polecat_pc' # "heartbeat" /\ ~agent_alive) =>
            /\ polecat_status' = "dead"
            /\ exit_reason' = "agent_died"
            /\ polecat_pc' = "capture"]_vars

PolecatCalled(a) == \E i \in 1..Len(polecat_calls) : polecat_calls[i] = a

\* Which steps have run, against what the first two steps returned.
PolecatStepsGated ==
    /\ PolecatCalled("spawn_agent") =>
            /\ polecat_calls[1] = "git_operation"
            /\ exit_reason # "worktree_failed"
    /\ (\/ polecat_pc \in {"loop", "heartbeat", "capture", "kill_agent"}
        \/ PolecatCalled("check_agent_alive")
        \/ PolecatCalled("capture_pane")
        \/ PolecatCalled("kill_agent")) =>
            /\ agent_spawned
            /\ PolecatCalled("spawn_agent")
            /\ exit_reason \notin {"worktree_failed", "spawn_failed"}
    /\ exit_reason = "worktree_failed" =>
            /\ polecat_status = "failed"
            /\ polecat_calls = <<"git_operation">>
    /\ exit_reason = "spawn_failed" =>
            /\ polecat_status = "spawn_failed"
            /\ polecat_calls = <<"git_operation", "spawn_agent">>

\* C23: spawn_agent is invoked only after a successful worktree creation, and
\* the heartbeat loop, capture_pane and kill_agent only after a successful
\* spawn_agent; a failed worktree creation leaves status = failed and
\* exit_reason = worktree_failed, a failed spawn leaves status = spawn_failed
\* and exit_reason = spawn_failed, and either goes straight to the mayor report.
FailuresSkipToReport ==
    [][/\ (polecat_pc = "worktree" /\ polecat_pc' # "worktree") =>
            \/ polecat_pc' = "spawn" /\ polecat_status' = "working"
            \/ /\ polecat_pc' = "report"
               /\ polecat_status' = "failed"
               /\ exit_reason' = "worktree_failed"
       /\ (polecat_pc = "spawn" /\ polecat_pc' # "spawn") =>
            \/ polecat_pc' = "loop" /\ agent_spawned' /\ polecat_status' = "working"
            \/ /\ polecat_pc' = "report"
               /\ ~agent_spawned'
               /\ polecat_status' = "spawn_failed"
               /\ exit_reason' = "spawn_failed"
       /\ PolecatStepsGated']_vars

\* A polecat whose spawn failed has reported to the mayor and returned.
FailuresSkipToReportWitness ==
    /\ polecat_pc = "returned"
    /\ exit_reason = "spawn_failed"
    /\ polecat_status = "spawn_failed"
    /\ polecat_calls = <<"git_operation", "spawn_agent">>
    /\ Len(reports_sent) = 1
    /\ reports_sent[1].status = "spawn_failed"

\* =================================================================
\* Properties: process supervisor
\* =================================================================

GateDecidesOnce ==
    [][/\ gate_status' # gate_status =>
            /\ gate_status = "waiting"
            /\ gate_status' \in {"approved", "closed"}
            /\ gate_pc' = "returned"
            /\ gate_result' = <<[gate_type |-> gate_type, status |-> gate_status']>>
       /\ (gate_pc' = "returned" /\ gate_pc # "returned") => gate_status' # gate_status
       /\ gate_pc = "returned" => UNCHANGED <<gate_pc, gate_type, gate_status, gate_result>>
       /\ gate_type' = "Timer" => gate_status' # "approved"
       /\ (gate_status = "waiting" /\ gate_status' = "approved") =>
            /\ gate_type \in {"Human", "Mail"}
            /\ gate_ch'["approve"] = gate_ch["approve"] - 1
       /\ (gate_status = "waiting" /\ gate_status' = "closed") =>
            \/ gate_ch'["close"] = gate_ch["close"] - 1
            \/ gate_type = "Timer" /\ gate_ch' = gate_ch]_vars

\* A Timer gate that was sent gate_approve only has been closed by its timer,
\* and an approve signal is still unread.
GateDecidesOnceWitness ==
    /\ gate_pc = "returned"
    /\ gate_type = "Timer"
    /\ gate_status = "closed"
    /\ gate_sent = MaxGateSignals
    /\ gate_ch["approve"] = gate_sent

\* =================================================================
\* Properties: mayor
\* =================================================================

NotedDead ==
    IF witness_note # <<>> /\ witness_note[1].subject = "dead polecats"
       THEN {witness_note[1].dead[i] : i \in 1..Len(witness_note[1].dead)}
       ELSE {}

\* C27: after every cycle the dead-polecat notification names exactly the
\* polecats whose count of consecutive dead checks is 3, 9, 15, ...; the count
\* goes up by one with every check that does not find the polecat's session
\* alive and back to zero with a check that finds it alive.
DeadAlertAtThirdThenEverySixth ==
    (witness_pc = "loop" /\ checks > 0) =>
        \A p \in WitnessPolecats :
            p \in NotedDead <=> (found_dead[p] >= 3 /\ found_dead[p] % 6 = 3)

\* C28: after every cycle whose number is a multiple of 12 the notification
\* sent in the cycle is the rig health summary.
HealthSummaryEveryTwelfth ==
    (checks > 0 /\ checks % 12 = 0) =>
        /\ witness_note # <<>>
        /\ witness_note[1].subject = "health"

\* =================================================================
\* Properties: boot
\* =================================================================

\* C29: when the probe of a health tick runs for a spawned agent whose
\* session is not alive, spawn_agent is invoked for the agent before the tick
\* is over.
DeadAgentRespawnedInTick ==
    (boot_pc \in {"loop", "returned"} /\ boot_probed = "not_alive") => boot_respawned

\* =================================================================
\* Properties: formula
\* =================================================================

RECURSIVE ReachFrom(_, _, _)
\* The steps reached from a step of the set by rounds edges at most.
ReachFrom(set, edges, rounds) ==
    IF rounds = 0
       THEN set
       ELSE ReachFrom(set \cup {e[2] : e \in {x \in edges : x[1] \in set}},
                      edges, rounds - 1)

HasCycle(edges, n) ==
    \E i \in 1..n :
        i \in ReachFrom({e[2] : e \in {x \in edges : x[1] = i}}, edges, n)

\* The order holds every step index once.
IsPermutation(order, n) ==
    /\ Len(order) = n
    /\ \A i \in 1..n : \E k \in 1..n : order[k] = i

\* In the order the step j comes before the step i, for every edge <<i, j>>.
Respects(order, edges) ==
    \A e \in edges :
        \E k, l \in 1..Len(order) : order[k] = e[2] /\ order[l] = e[1] /\ k < l

\* The depends_on graph by names: the step i depends on every step that has
\* a name of its depends_on list.
DependsByName ==
    {<<i, j>> \in (1..Len(formula_steps)) \X (1..Len(formula_steps)) :
        \E k \in 1..Len(formula_steps[i].depends_on) :
            formula_steps[i].depends_on[k] = formula_steps[j].name}

\* The depends_on graph as topo_sort resolves names: the step i depends on
\* the last step that has a name of its depends_on list.
DependsByIndex ==
    {<<i, j>> \in (1..Len(formula_steps)) \X (1..Len(formula_steps)) :
        \E k \in 1..Len(formula_steps[i].depends_on) :
            NameToIdx(formula_steps, formula_steps[i].depends_on[k]) = j}

UnknownDependency ==
    \E i \in 1..Len(formula_steps) : \E k \in 1..Len(formula_steps[i].depends_on) :
        \A j \in 1..Len(formula_steps) :
            formula_steps[j].name # formula_steps[i].depends_on[k]

\* C30 as stated: for a formula whose depends_on graph is acyclic topo_sort
\* returns a permutation of the steps in which every step comes after all the
\* steps it depends on, and for a formula whose graph has a cycle it returns
\* an error.
TopoSortByGraph ==
    formula_pc = "sorted" =>
        IF HasCycle(DependsByName, Len(formula_steps))
           THEN ~topo_result[1].ok
           ELSE /\ topo_result[1].ok
                /\ IsPermutation(topo_result[1].order, Len(formula_steps))
                /\ Respects(topo_result[1].order, DependsByName)

\* C30: topo_sort returns an error for a formula with a depends_on entry
\* that names no step and for a formula whose depends_on graph has a cycle;
\* for every other formula it returns a permutation of the steps in which
\* every step comes after the steps its depends_on entries refer to, an
\* entry referring to the last step that has its name.
TopoSortByResolvedGraph ==
    formula_pc = "sorted" =>
        IF UnknownDependency \/ HasCycle(DependsByIndex, Len(formula_steps))
           THEN ~topo_result[1].ok
           ELSE /\ topo_result[1].ok
                /\ IsPermutation(topo_result[1].order, Len(formula_steps))
                /\ Respects(topo_result[1].order, DependsByIndex)

\* A chain listed last step first, with a step that depends on two steps,
\* has been sorted.
TopoSortByResolvedGraphWitness ==
    /\ formula_pc = "sorted"
    /\ formula_steps = <<[name |-> "c", depends_on |-> <<"a", "b">>],
                         [name |-> "b", depends_on |-> <<"a">>],
                         [name |-> "a", depends_on |-> <<>>]>>
    /\ topo_result[1].ok
    /\ topo_result[1].order = <<3, 2, 1>>

\* =================================================================
\* Properties: polecat, terminal status
\* =================================================================

\* The (status, exit_reason) pairs a run may end with.
TerminalPairs ==
    {<<"done", "completed">>, <<"zombie", "killed">>, <<"dead", "agent_died">>,
     <<"failed", "worktree_failed">>, <<"spawn_failed", "spawn_failed">>}

\* C39: every polecat_report handed to signal_workflow and every returned
\* state carries one of the terminal (status, exit_reason) pairs, never
\* working, stuck or unknown; the polecat_stuck branch leaves the run in the
\* loop with nothing reported; and the polecat_done or polecat_kill branch
\* taken in status stuck leaves the loop as done / completed or zombie /
\* killed.
NeverEndsNonTerminal ==
    [][/\ \A i \in 1..Len(reports_sent') :
            <<reports_sent'[i].status, reports_sent'[i].exit_reason>> \in TerminalPairs
       /\ polecat_result' # <<>> =>
            <<polecat_result'[1].status, exit_reason'>> \in TerminalPairs
       /\ stuck_ch' < stuck_ch =>
            /\ polecat_pc' = "loop"
            /\ polecat_status' = "stuck"
            /\ reports_sent' = <<>>
       /\ (polecat_status = "stuck" /\ Len(done_ch') < Len(done_ch)) =>
            /\ polecat_pc' # "loop"
            /\ <<polecat_status', exit_reason'>> = <<"done", "completed">>
       /\ (polecat_status = "stuck" /\ kill_ch' < kill_ch) =>
            /\ polecat_pc' # "loop"
            /\ <<polecat_status', exit_reason'>> = <<"zombie", "killed">>]_vars

\* A run that has returned as done and has taken at least two signals, none
\* of which is left in a channel: the signals before the polecat_done were
\* polecat_stuck, since a polecat_kill would have ended the loop.
NeverEndsNonTerminalWitness ==
    /\ polecat_pc = "returned"
    /\ polecat_sent >= 2
    /\ kill_ch = 0 /\ done_ch = <<>> /\ stuck_ch = 0
    /\ polecat_result[1].status = "done"
    /\ reports_sent[1].exit_reason = "completed"

\* =================================================================
\* Properties: molecule, pause
\* =================================================================

\* C40: while the molecule is paused no step changes its status and no
\* mol_step_done or mol_step_fail is taken out of its channel: the signal
\* stays there to be applied once mol_resume was handled.
PausedKeepsStepSignals ==
    [][(mol_status = "paused" /\ mol_pc = "loop") =>
            /\ \A i \in 1..Len(steps) : steps'[i].status = steps[i].status
            /\ Len(mol_ch'["step_done"]) >= Len(mol_ch["step_done"])
            /\ Len(mol_ch'["step_fail"]) >= Len(mol_ch["step_fail"])]_vars

\* =================================================================
\* Properties: formula workflow
\* =================================================================

\* The run_plugin calls whose command failed: it could not be run or it
\* exited with a non-zero code.
FailedRuns == {i \in 1..Len(fwf_runs) : fwf_runs[i].outcome # "exit_zero"}

\* C31: the steps run in sorted order, one at a time; a step whose command
\* fails is the last step run, and the workflow has returned with failed_step
\* that step's name and steps_completed the number of steps run before it;
\* a run that returns with no failed command has failed_step absent and
\* steps_completed = steps_total.
FirstFailureShortCircuits ==
    /\ \A i \in 1..Len(fwf_runs) : fwf_runs[i].name = sorted_steps[i]
    /\ \A i \in FailedRuns :
        /\ i = Len(fwf_runs)
        /\ fwf_pc = "returned"
        /\ fwf_result[1].failed_step = fwf_runs[i].name
        /\ fwf_result[1].steps_completed = i - 1
    /\ (fwf_pc = "returned" /\ FailedRuns = {}) =>
        /\ fwf_result[1].failed_step = None
        /\ fwf_result[1].steps_completed = fwf_result[1].steps_total

\* =================================================================
\* Properties: RigsConfig
\* =================================================================

\* C32: after every sequence of add and remove calls no two entries of rigs
\* have the same name; an add of a name that is present leaves the list as it
\* was; after a remove the name is absent, a remove of an absent name leaves
\* the list as it was, and so does a second remove of the same name.
RigNamesUnique ==
    /\ \A i, j \in 1..Len(cfg_rigs) : cfg_rigs[i].name = cfg_rigs[j].name => i = j
    /\ \A name \in RigNames : remove(remove(cfg_rigs, name), name) = remove(cfg_rigs, name)
    /\ cfg_last # <<>> =>
        LET call == cfg_last[1]
            present == \E i \in 1..Len(call.before) : call.before[i].name = call.name
        IN  /\ (call.op = "add" /\ present) => cfg_rigs = call.before
            /\ call.op = "add" => \E i \in 1..Len(cfg_rigs) : cfg_rigs[i].name = call.name
            /\ call.op = "remove" => \A i \in 1..Len(cfg_rigs) : cfg_rigs[i].name # call.name
            /\ (call.op = "remove" /\ ~present) => cfg_rigs = call.before

\* rig-a was added again, with another url, to a list that holds rig-a and
\* rig-b: the list is as it was.
RigNamesUniqueWitness ==
    /\ cfg_last # <<>>
    /\ cfg_last[1].op = "add"
    /\ cfg_last[1].name = "rig-a"
    /\ Len(cfg_last[1].before) = 2
    /\ cfg_last[1].before[1] = [name |-> "rig-a", path |-> <<"rigs", "rig-a">>, git_url |-> "url-1"]
    /\ cfg_rigs = cfg_last[1].before
    /\ cfg_ops = 3

\* =================================================================
\* Properties: work item, order of signals
\* =================================================================

\* What a signal does to (status, assigned_to) when it is applied on its own;
\* a run that has returned applies nothing more.
InOrderStep(st, sig) ==
    IF st.status \in {"done", "failed", "closed"} THEN st
    ELSE CASE sig[1] = "assign" ->
                IF st.status = "pending" /\ sig[2] # "bad"
                   THEN [status |-> "assigned", assigned_to |-> sig[2]]
                   ELSE st
           [] sig[1] = "start" ->
                IF st.status = "assigned" THEN [st EXCEPT !.status = "in_progress"] ELSE st
           [] sig[1] = "complete" ->
                IF st.status \in Active THEN [st EXCEPT !.status = "done"] ELSE st
           [] sig[1] = "fail" ->
                IF sig[2] # "bad" THEN [st EXCEPT !.status = "failed"] ELSE st
           [] sig[1] = "close" -> [st EXCEPT !.status = "closed"]
           [] sig[1] = "release" ->
                IF st.status \in Active
                   THEN [status |-> "pending", assigned_to |-> None]
                   ELSE st
           [] OTHER -> st

RECURSIVE InOrder(_, _)
\* The signals of log applied one after the other, first to last.
InOrder(st, log) ==
    IF log = <<>> THEN st ELSE InOrder(InOrderStep(st, Head(log)), Tail(log))

\* C33: once every delivered signal has been taken, status and assigned_to
\* are what applying the signals one by one in the order of their delivery
\* gives, also when signals of several names were pending together.
SignalsAppliedInDeliveryOrder ==
    (\A n \in WiSignalNames : wi_ch[n] = <<>>) =>
        [status |-> wi_status, assigned_to |-> assigned_to]
            = InOrder([status |-> "pending", assigned_to |-> None], wi_log)

\* =================================================================
\* Properties: one session per agent id
\* =================================================================

\* The spawn_agent activity in slot s takes a step.
SpawnSteps(s) ==
    /\ sup_task[s].kind = "spawn_agent"
    /\ sup_task[s].pc \notin {"idle", "done"}
    /\ sup_task'[s] # sup_task[s]

\* C34: a step of a spawn_agent activity taken while the agent has a live
\* session that this activity did not create leaves the session and the
\* runtime directory with its env.json and pid file as they are, and does not
\* end the activity with success, also when another spawn_agent or a
\* kill_agent for the agent id runs at the same time.
SpawnLeavesLiveSessionAlone ==
    [][\A s \in Slots :
        (SpawnSteps(s) /\ sup_session # 0 /\ sup_session # sup_task[s].id) =>
            /\ UNCHANGED <<sup_session, sup_dir, sup_env, sup_pidfile>>
            /\ sup_task'[s].ret # "ok"]_vars

\* =================================================================
\* Properties: done command
\* =================================================================

\* C35: the done command is never ended by the polecat's kill of the agent's
\* session and process group between its two signals: whenever polecat_done
\* was sent and the command's process runs no more, refinery_enqueue was
\* handed to the engine (which may still refuse it).
KillNeverLosesEnqueue ==
    ~(done_cmd_pc = "enqueue" /\ done_signalled /\ DoneProcessKilled)

\* =================================================================
\* Properties: refinery, dequeue
\* =================================================================

\* C36: an entry whose refinery_dequeue was delivered while it waited (its
\* enqueue not handled yet, or queued, its checkout not started) is never
\* validated, so that no git or test activity runs for it, and never appears
\* in processed.
DequeuedWhileWaitingNeverRuns ==
    \A id \in mq_waiting :
        /\ \A i \in 1..Len(queue) :
                queue[i].work_item_id = id => queue[i].status = "queued"
        /\ \A i \in 1..Len(processed) : processed[i].work_item_id # id

\* -----------------------------------------------------------------
\* Refinery progress
\* -----------------------------------------------------------------
FinalStatuses ==
    {"merged", "merged_push_failed", "merge_failed", "tests_failed", "conflict",
     "checkout_failed"}

\* How many entries of the sequence are for the work item.
CountOf(s, id) == Cardinality({i \in 1..Len(s) : s[i].work_item_id = id})

\* The entries for the work item the refinery has accepted so far: those in
\* the queue, the one held between merge and push, and those processed.
AcceptedCount(id) == CountOf(queue, id) + CountOf(ref_entry, id) + CountOf(processed, id)

\* Every entry accepted so far is in processed: none is queued, validating
\* or held between merge and push.
AllAcceptedProcessed ==
    \A id \in WorkItemIds : CountOf(processed, id) = AcceptedCount(id)

ProcessedAreFinal ==
    \A i \in 1..Len(processed) : processed[i].status \in FinalStatuses

ReturnedStateSettled ==
    ref_result # <<>> =>
        /\ \A i \in 1..Len(ref_result[1].queue) :
               ref_result[1].queue[i].status \notin {"queued", "validating"}
        /\ \A i \in 1..Len(ref_result[1].processed) :
               ref_result[1].processed[i].status \in FinalStatuses

\* C37: provided every activity eventually returns and no entry is dequeued,
\* every entry accepted by refinery_enqueue eventually appears in processed
\* with a final status; no entry stays queued or validating forever, and the
\* state returned on stop holds no queued or validating entry.
AcceptedEntriesGetProcessed ==
    /\ [](ProcessedAreFinal /\ ReturnedStateSettled)
    /\ [][\A id \in WorkItemIds : AcceptedCount(id)' >= AcceptedCount(id)]_vars
    /\ []<>AllAcceptedProcessed

\* A stop was handled after an entry had been accepted and merged, and the
\* returned state holds it in processed and nothing in the queue.
AcceptedEntriesGetProcessedWitness ==
    /\ ref_pc = "stopped"
    /\ ref_result # <<>>
    /\ ref_result[1].queue = <<>>
    /\ Len(ref_result[1].processed) >= 1
    /\ ref_result[1].processed[1].status = "merged"

\* -----------------------------------------------------------------
\* Rig session ids over boots and stops
\* -----------------------------------------------------------------

\* C38: once a rig has recorded a witness (or refinery) session id, a session
\* id stays recorded in every later state, across rig_stop / rig_boot cycles
\* and whatever discover_session_id returns.
SessionIdNeverLost ==
    [][/\ witness_session_id # None => witness_session_id' # None
       /\ refinery_session_id # None => refinery_session_id' # None]_vars

=============================================================================
